---- MODULE Spec2Model ----
(***************************************************************************)
(* ha-sync: reconciliation of a local store of YAML files with the remote  *)
(* store of a Home Assistant instance.  The module models the syncers of   *)
(* src/ha_sync/sync: their diff, pull and push operations over both stores.*)
(***************************************************************************)
EXTENDS Integers, Sequences, FiniteSets, TLC

(* ------------------------------------------------------------------ *)
(* Values                                                             *)
(* ------------------------------------------------------------------ *)

\* Entity ids; a file "<f>.yaml" has the filename key f.
Ids == {"a", "b", "c"}

\* Python's None: a DiffItem without new_id, a record without an "id" field.
None == "None"

\* A mapping key that is not present.
Absent == "absent"

\* The alias field of a record: not present, its declared default "", or a text.
AliasVals == {Absent, "", "Foo"}

\* The largest number of local files and of remote entities of an initial state.
MaxFiles == 2
MaxRemote == 2

\* The largest number of pull and push calls of one run; diff calls are not counted.
MaxOps == 1

\* A record: a mapping with an optional id and an optional alias.
FileData == [id : Ids \cup {None}, alias : AliasVals]

\* The file contents of an initial state: with or without an id, the alias absent
\* or set.
InitLocalData == [id : Ids \cup {None}, alias : {Absent, "Foo"}]

\* The remote records of an initial state, as the remote API lists them: keyed by
\* their id, the alias always present.
InitRemoteData == [id : {None}, alias : {"", "Foo"}]

\* The order in which the remote API lists the entities.
IdOrder == <<"a", "b", "c">>

\* All enumeration orders of a finite set, as sequences without repetition.
RECURSIVE Perms(_)
Perms(S) ==
    IF S = {} THEN {<<>>}
    ELSE UNION {{<<x>> \o p : p \in Perms(S \ {x})} : x \in S}

\* The elements of a sequence.
Range(s) == {s[i] : i \in DOMAIN s}

(* ------------------------------------------------------------------ *)
(* models.py: BaseEntityModel.normalize for a model with a required    *)
(* id (Automation, Script, Scene) and a defaulted alias                *)
(* ------------------------------------------------------------------ *)

\* model_validate raises a ValidationError when the required id is missing.
Validates(config) == config.id # None

\* model_dump(exclude_none=True) of the validated model: every declared field is
\* present, an absent alias carries its default "".
normalize(config) ==
    [id |-> config.id, alias |-> IF config.alias = Absent THEN "" ELSE config.alias]

(* ------------------------------------------------------------------ *)
(* base.py: SimpleEntitySyncer helpers                                 *)
(* ------------------------------------------------------------------ *)

\* get_filename / filename_from_id: "<entity_id>.yaml", the file whose key is entity_id.
get_filename(entity_id) == entity_id

\* clean_config drops the keys starting with "_" (here: _filename).
clean_config(config) == [id |-> config.id, alias |-> config.alias]

\* ensure_id_in_config adds the id when the record has none.
ensure_id_in_config(entity_id, config) ==
    IF config.id = None THEN [config EXCEPT !.id = entity_id] ELSE config

\* data.get("id", id_from_filename(yaml_file))
content_id(f, data) == IF data.id = None THEN f ELSE data.id

\* get_local_entities: the files are read in the order glob yields them; the dict
\* keeps each key at its first position and the value of the last file carrying it.
RECURSIVE get_local_entities(_, _, _)
get_local_entities(files, order, acc) ==
    IF order = <<>> THEN acc
    ELSE LET f == Head(order)
             eid == content_id(f, files[f])
             entry == [id |-> files[f].id, alias |-> files[f].alias, filename |-> f]
             keys2 == IF eid \in DOMAIN acc.data THEN acc.keys ELSE Append(acc.keys, eid)
             data2 == [k \in DOMAIN acc.data \cup {eid} |->
                          IF k = eid THEN entry ELSE acc.data[k]]
         IN get_local_entities(files, Tail(order), [keys |-> keys2, data |-> data2])

\* The empty dict.
EmptyDict == [keys |-> <<>>, data |-> <<>>]

\* detect_renames: filename key -> content id for every file whose two keys differ
\* while the filename key exists remotely; pairs in glob order.
RECURSIVE detect_renames(_, _, _)
detect_renames(files, order, remoteKeys) ==
    IF order = <<>> THEN <<>>
    ELSE LET f == Head(order)
             c == content_id(f, files[f])
             rest == detect_renames(files, Tail(order), remoteKeys)
         IN IF c # f /\ f \in remoteKeys THEN <<(<<f, c>>)>> \o rest ELSE rest

RenameOlds(renames) == {renames[i][1] : i \in DOMAIN renames}
\* A variant that takes the old keys for the new ones.
RenameNews_old_keys(renames) == RenameOlds(renames)

RenameNews(renames) == {renames[i][2] : i \in DOMAIN renames}


(* ------------------------------------------------------------------ *)
(* base.py: DiffItem, SyncResult, and the effects of one operation     *)
(* ------------------------------------------------------------------ *)

\* DiffItem(entity_id, status, new_id); the local/remote snapshots it carries for
\* display are not modelled.
DiffItem(entity_id, status, new_id) ==
    [entity_id |-> entity_id, status |-> status, new_id |-> new_id]

\* SyncResult(created=[], updated=[], deleted=[], renamed=[], errors=[])
SyncResult ==
    [created |-> <<>>, updated |-> <<>>, deleted |-> <<>>, renamed |-> <<>>, errors |-> <<>>]

\* SyncResult.has_changes
has_changes(result) ==
    result.created # <<>> \/ result.updated # <<>> \/ result.deleted # <<>>
        \/ result.renamed # <<>>

\* The running state of one pull or push: both stores as the operation has left
\* them so far, its result, the remote calls and the file operations it issued,
\* and the part of the operation that is running.
RunState(files, remoteStore) ==
    [files |-> files, remote |-> remoteStore, result |-> SyncResult,
     calls |-> <<>>, fops |-> <<>>, raised |-> FALSE, phase |-> "start"]

\* The position of the next remote call or file operation among all those the
\* operation issues: statements run one after the other, every remote call is
\* awaited before the next statement.
Tick(st) == Len(st.calls) + Len(st.fops) + 1

\* The run state with the operation in the named part of its code.
InPhase(st, phase) == [st EXCEPT !.phase = phase]

\* dump_yaml(data, path): the file holds data afterwards, created or replaced.
dump_yaml(st, file, data) ==
    [st EXCEPT !.files = [g \in DOMAIN st.files \cup {file} |->
                             IF g = file THEN data ELSE st.files[g]],
               !.fops = Append(@, [op |-> "write", file |-> file, at |-> Tick(st)])]

\* Path.unlink(): the file is gone afterwards.
unlink(st, file) ==
    [st EXCEPT !.files = [g \in DOMAIN st.files \ {file} |-> st.files[g]],
               !.fops = Append(@, [op |-> "unlink", file |-> file, at |-> Tick(st)])]

\* get_remote_entities(): the keys of the remote dict, in the order of the listing.
remote_keys(remoteStore) == SelectSeq(IdOrder, LAMBDA k : k \in DOMAIN remoteStore)

\* The remote call log entry of get_remote_entities.
ListCall == [op |-> "list", key |-> None, ok |-> TRUE]

\* One remote call that is made to fail (a StoreError), or NoFail.
NoFail == [op |-> "none", key |-> None]
Fails(fail, opname, key) == fail = [op |-> opname, key |-> key]

\* save_remote(entity_id, config): the remote store holds config under entity_id
\* afterwards, created or replaced.  Bound by the subclasses, which are not part
\* of the sources at hand.
save_remote(st, entity_id, config) ==
    [st EXCEPT !.remote = [k \in DOMAIN st.remote \cup {entity_id} |->
                              IF k = entity_id THEN config ELSE st.remote[k]],
               !.calls = Append(@, [op |-> "save", key |-> entity_id, ok |-> TRUE,
                                    phase |-> st.phase, at |-> Tick(st)])]

\* delete_remote(entity_id): the remote store holds no entity_id afterwards.
delete_remote(st, entity_id) ==
    [st EXCEPT !.remote = [k \in DOMAIN st.remote \ {entity_id} |-> st.remote[k]],
               !.calls = Append(@, [op |-> "delete", key |-> entity_id, ok |-> TRUE,
                                    phase |-> st.phase, at |-> Tick(st)])]

\* reload_remote(): the remote application re-reads its entities.
reload_remote(st, ok) ==
    [st EXCEPT !.calls = Append(@, [op |-> "reload", key |-> None, ok |-> ok,
                                    phase |-> st.phase, at |-> Tick(st)])]

\* A remote call that raised: it is issued, and changes nothing.
failed_call(st, opname, key) ==
    [st EXCEPT !.calls = Append(@, [op |-> opname, key |-> key, ok |-> FALSE,
                                    phase |-> st.phase, at |-> Tick(st)])]

\* result.errors.append((entity_id, str(e)))
Errored(st, entity_id, msg) ==
    [st EXCEPT !.result.errors = Append(@, <<entity_id, msg>>)]

\* Path.rename(target): the target holds the content of the source, which is
\* gone; an existing target is replaced.
rename_file(st, old, new) ==
    [st EXCEPT !.files = [g \in (DOMAIN st.files \ {old}) \cup {new} |->
                             IF g = new THEN st.files[old] ELSE st.files[g]],
               !.fops = Append(@, [op |-> "rename", file |-> old, to |-> new,
                                   at |-> Tick(st)])]

(* ------------------------------------------------------------------ *)
(* base.py: SimpleEntitySyncer.diff                                    *)
(* ------------------------------------------------------------------ *)

\* The rename items, one per pending rename, in the order of the renames dict.
diff_renamed(renames) ==
    [i \in DOMAIN renames |-> DiffItem(renames[i][1], "renamed", renames[i][2])]

\* The loop over the local entities: added when the key is not remote, modified
\* when both normalized forms differ; rename targets are skipped.
RECURSIVE diff_local(_, _, _, _)
diff_local(keys, localDict, renames, remoteStore) ==
    IF keys = <<>> THEN <<>>
    ELSE LET entity_id == Head(keys)
             rest == diff_local(Tail(keys), localDict, renames, remoteStore)
             local_clean == clean_config(localDict.data[entity_id])
         IN IF entity_id \in RenameNews(renames) THEN rest
            ELSE IF entity_id \notin DOMAIN remoteStore
                 THEN <<DiffItem(entity_id, "added", None)>> \o rest
            ELSE IF normalize(local_clean)
                      # normalize(ensure_id_in_config(entity_id, remoteStore[entity_id]))
                 THEN <<DiffItem(entity_id, "modified", None)>> \o rest
            ELSE rest

\* A variant of diff_deleted that reports no deletion.
diff_deleted_none(rorder, localDict, renames) == <<>>

\* The loop over the remote entities: deleted when the key is neither a local
\* entity nor the old key of a rename.
RECURSIVE diff_deleted(_, _, _)
diff_deleted(rorder, localDict, renames) ==
    IF rorder = <<>> THEN <<>>
    ELSE LET entity_id == Head(rorder)
             rest == diff_deleted(Tail(rorder), localDict, renames)
         IN IF entity_id \notin DOMAIN localDict.data /\ entity_id \notin RenameOlds(renames)
            THEN <<DiffItem(entity_id, "deleted", None)>> \o rest
            ELSE rest

\* normalize(local_clean) raises for a compared local record that fails validation;
\* diff has no handler, so the call raises instead of returning.
diff_raises(localDict, renames, remoteStore) ==
    \E entity_id \in DOMAIN localDict.data :
        /\ entity_id \notin RenameNews(renames)
        /\ entity_id \in DOMAIN remoteStore
        /\ ~Validates(clean_config(localDict.data[entity_id]))

\* What a diff hands back: whether it raised, its list, and the run state, which
\* holds both stores as the diff left them and the calls and file operations it
\* issued.
DiffRun(st, diff_raised, diff_items) ==
    [raised |-> diff_raised, items |-> IF diff_raised THEN <<>> ELSE diff_items, st |-> st]

\* A variant of diff that brings the file of the first pending rename in line
\* with its content id.
diff_renaming(files, remoteStore, lorder) ==
    LET st == [RunState(files, remoteStore) EXCEPT !.calls = <<ListCall>>]
        localDict == get_local_entities(files, lorder, EmptyDict)
        renames == detect_renames(files, lorder, DOMAIN remoteStore)
    IN DiffRun(IF renames = <<>> THEN st
               ELSE rename_file(st, get_filename(renames[1][1]), get_filename(renames[1][2])),
               diff_raises(localDict, renames, remoteStore),
               diff_renamed(renames)
                  \o diff_local(localDict.keys, localDict, renames, remoteStore)
                  \o diff_deleted(remote_keys(remoteStore), localDict, renames))

\* diff(): lorder is the order in which glob yields the files.
diff(files, remoteStore, lorder) ==
    LET st == [RunState(files, remoteStore) EXCEPT !.calls = <<ListCall>>]
        localDict == get_local_entities(files, lorder, EmptyDict)
        renames == detect_renames(files, lorder, DOMAIN remoteStore)
    IN DiffRun(st, diff_raises(localDict, renames, remoteStore),
               diff_renamed(renames)
                  \o diff_local(localDict.keys, localDict, renames, remoteStore)
                  \o diff_deleted(remote_keys(remoteStore), localDict, renames))

(* ------------------------------------------------------------------ *)
(* base.py: SimpleEntitySyncer.pull                                    *)
(* ------------------------------------------------------------------ *)

Created(st, entity_id) == [st EXCEPT !.result.created = Append(@, entity_id)]
Updated(st, entity_id) == [st EXCEPT !.result.updated = Append(@, entity_id)]
\* A variant of Deleted that deletes the entity remotely as well.
Deleted_remotely(st, entity_id) ==
    [delete_remote(st, entity_id) EXCEPT !.result.deleted = Append(@, entity_id)]

Deleted(st, entity_id) == [st EXCEPT !.result.deleted = Append(@, entity_id)]

\* The loop over the remote entities: a missing local entity is written and
\* recorded as created, a differing one rewritten and recorded as updated; the
\* file written is get_filename(entity_id).  Nothing catches a raising normalize.
RECURSIVE pull_remote_loop(_, _, _, _)
pull_remote_loop(rorder, remoteStore, localDict, st) ==
    IF rorder = <<>> \/ st.raised THEN st
    ELSE LET entity_id == Head(rorder)
             config == ensure_id_in_config(entity_id, remoteStore[entity_id])
             ordered == normalize(config)
             file == get_filename(entity_id)
             next ==
                 IF entity_id \in DOMAIN localDict.data
                 THEN LET local_config == clean_config(localDict.data[entity_id])
                      IN IF ~Validates(local_config) THEN [st EXCEPT !.raised = TRUE]
                         ELSE IF ordered # normalize(local_config)
                              THEN Updated(dump_yaml(st, file, ordered), entity_id)
                         ELSE st
                 ELSE Created(dump_yaml(st, file, ordered), entity_id)
         IN pull_remote_loop(Tail(rorder), remoteStore, localDict, next)

\* The deletion loop of sync_deletions: the file a remote-less local entity was
\* read from (its _filename) is unlinked if it exists.
RECURSIVE pull_delete_loop(_, _, _, _)
pull_delete_loop(keys, remoteStore, localDict, st) ==
    IF keys = <<>> THEN st
    ELSE LET entity_id == Head(keys)
             file == localDict.data[entity_id].filename
             next == IF entity_id \notin DOMAIN remoteStore /\ file \in DOMAIN st.files
                     THEN Deleted(unlink(st, file), entity_id)
                     ELSE st
         IN pull_delete_loop(Tail(keys), remoteStore, localDict, next)

\* pull(sync_deletions)
pull(files, remoteStore, sync_deletions, lorder) ==
    LET localDict == get_local_entities(files, lorder, EmptyDict)
        st0 == [RunState(files, remoteStore) EXCEPT !.calls = <<ListCall>>]
        st1 == pull_remote_loop(remote_keys(remoteStore), remoteStore, localDict, st0)
    IN IF st1.raised THEN [st1 EXCEPT !.result = SyncResult]
       ELSE IF sync_deletions
            THEN pull_delete_loop(localDict.keys, remoteStore, localDict, st1)
       ELSE st1

(* ------------------------------------------------------------------ *)
(* base.py: SimpleEntitySyncer.push                                    *)
(* ------------------------------------------------------------------ *)

Renamed(st, old_id, new_id) ==
    [st EXCEPT !.result.renamed = Append(@, <<old_id, new_id>>)]

\* A variant of push_rename that leaves the old remote entity in place.
push_rename_keeping_old(old_id, new_id, dry_run, fail, st) ==
    IF dry_run THEN Renamed(st, old_id, new_id)
    ELSE IF old_id \notin DOMAIN st.files THEN st
    ELSE IF Fails(fail, "save", new_id)
         THEN Errored(failed_call(st, "save", new_id), old_id, "save_remote")
    ELSE Renamed(rename_file(save_remote(st, new_id, clean_config(st.files[old_id])),
                             get_filename(old_id), get_filename(new_id)),
                 old_id, new_id)

\* A variant of push_rename that renames the file and records the rename although
\* the remote create raised.
push_rename_despite_error(old_id, new_id, dry_run, fail, st) ==
    IF dry_run THEN Renamed(st, old_id, new_id)
    ELSE IF old_id \notin DOMAIN st.files THEN st
    ELSE LET push_config == clean_config(st.files[old_id])
         IN IF Fails(fail, "delete", old_id)
            THEN Errored(failed_call(st, "delete", old_id), old_id, "delete_remote")
            ELSE LET st1 == delete_remote(st, old_id)
                 IN IF Fails(fail, "save", new_id)
                    THEN Renamed(rename_file(Errored(failed_call(st1, "save", new_id),
                                                     old_id, "save_remote"),
                                             get_filename(old_id), get_filename(new_id)),
                                 old_id, new_id)
                    ELSE Renamed(rename_file(save_remote(st1, new_id, push_config),
                                             get_filename(old_id), get_filename(new_id)),
                                 old_id, new_id)

\* A variant of push_rename that carries the rename out in a dry run too.
push_rename_in_dry_run(old_id, new_id, dry_run, fail, st) ==
    IF old_id \notin DOMAIN st.files THEN st
    ELSE IF Fails(fail, "delete", old_id)
         THEN Errored(failed_call(st, "delete", old_id), old_id, "delete_remote")
    ELSE IF Fails(fail, "save", new_id)
         THEN Errored(failed_call(delete_remote(st, old_id), "save", new_id),
                      old_id, "save_remote")
    ELSE Renamed(rename_file(save_remote(delete_remote(st, old_id), new_id,
                                         clean_config(st.files[old_id])),
                             get_filename(old_id), get_filename(new_id)),
                 old_id, new_id)

\* A rename phase whose real run performs the rename without recording it.
push_rename_unrecorded(old_id, new_id, dry_run, fail, st) ==
    IF dry_run THEN Renamed(st, old_id, new_id)
    ELSE IF old_id \notin DOMAIN st.files \/ Fails(fail, "delete", old_id)
              \/ Fails(fail, "save", new_id) THEN st
    ELSE rename_file(save_remote(delete_remote(st, old_id), new_id,
                                 clean_config(st.files[old_id])),
                     get_filename(old_id), get_filename(new_id))

\* Phase 1, one rename: delete the old remote entity, create the new one from the
\* file "<old>.yaml", rename the file.  A raising call becomes an error entry.
push_rename(old_id, new_id, dry_run, fail, st) ==
    IF dry_run THEN Renamed(st, old_id, new_id)
    ELSE IF old_id \notin DOMAIN st.files THEN st
    ELSE LET push_config == clean_config(st.files[old_id])
         IN IF Fails(fail, "delete", old_id)
            THEN Errored(failed_call(st, "delete", old_id), old_id, "delete_remote")
            ELSE LET st1 == delete_remote(st, old_id)
                 IN IF Fails(fail, "save", new_id)
                    THEN Errored(failed_call(st1, "save", new_id), old_id, "save_remote")
                    ELSE Renamed(rename_file(save_remote(st1, new_id, push_config),
                                             get_filename(old_id), get_filename(new_id)),
                                 old_id, new_id)

RECURSIVE push_renames(_, _, _, _)
push_renames(renames, dry_run, fail, st) ==
    IF renames = <<>> THEN st
    ELSE push_renames(Tail(renames), dry_run, fail,
                      push_rename(Head(renames)[1], Head(renames)[2], dry_run, fail, st))

\* The renamed items of a diff, as (old, new) pairs in the order of the list.
RECURSIVE renamed_pairs(_)
renamed_pairs(diff_items) ==
    IF diff_items = <<>> THEN <<>>
    ELSE LET item == Head(diff_items)
         IN IF item.status = "renamed" /\ item.new_id # None
            THEN <<(<<item.entity_id, item.new_id>>)>> \o renamed_pairs(Tail(diff_items))
            ELSE renamed_pairs(Tail(diff_items))

\* The entity ids of the items of a diff that have one of the statuses, in order.
RECURSIVE ids_with_status(_, _)
ids_with_status(diff_items, statuses) ==
    IF diff_items = <<>> THEN <<>>
    ELSE IF Head(diff_items).status \in statuses
         THEN <<Head(diff_items).entity_id>> \o ids_with_status(Tail(diff_items), statuses)
         ELSE ids_with_status(Tail(diff_items), statuses)

\* A variant of items_to_process that takes every local entity no rename has
\* processed, forced or not.
items_to_process_all(force, localDict, diff_items, processed_ids) ==
    SelectSeq(localDict.keys, LAMBDA eid : eid \notin processed_ids)

\* Phase 2: the entities to create or update.  Force: every local entity no rename
\* has processed; otherwise the added and modified items of the diff.
items_to_process(force, localDict, diff_items, processed_ids) ==
    IF force
    THEN SelectSeq(localDict.keys, LAMBDA eid : eid \notin processed_ids)
    ELSE SelectSeq(ids_with_status(diff_items, {"added", "modified"}),
                   LAMBDA eid : eid \in DOMAIN localDict.data)

\* Phase 2 loop: is_update is decided against the remote dict fetched at the start.
RECURSIVE push_save_loop(_, _, _, _, _, _)
push_save_loop(todo, localDict, remoteStore, dry_run, fail, st) ==
    IF todo = <<>> THEN st
    ELSE LET entity_id == Head(todo)
             push_config == clean_config(localDict.data[entity_id])
             is_update == entity_id \in DOMAIN remoteStore
             record(s) == IF is_update THEN Updated(s, entity_id) ELSE Created(s, entity_id)
             next == IF dry_run THEN record(st)
                     ELSE IF Fails(fail, "save", entity_id)
                          THEN Errored(failed_call(st, "save", entity_id),
                                       entity_id, "save_remote")
                     ELSE record(save_remote(st, entity_id, push_config))
         IN push_save_loop(Tail(todo), localDict, remoteStore, dry_run, fail, next)

\* A variant of items_to_delete that finds nothing to delete.
items_to_delete_none(force, localDict, remoteStore, diff_items, processed_ids) == <<>>

\* A variant of items_to_delete that, when forced, also takes the keys a rename
\* has processed.
items_to_delete_processed_too(force, localDict, remoteStore, diff_items, processed_ids) ==
    IF force
    THEN SelectSeq(remote_keys(remoteStore), LAMBDA eid : eid \notin DOMAIN localDict.data)
    ELSE ids_with_status(diff_items, {"deleted"})

\* Phase 3: the remote entities to delete.  Force: every remote key that is no
\* local entity and that no rename has processed; otherwise the deleted items.
items_to_delete(force, localDict, remoteStore, diff_items, processed_ids) ==
    IF force
    THEN SelectSeq(remote_keys(remoteStore),
                   LAMBDA eid : eid \notin DOMAIN localDict.data /\ eid \notin processed_ids)
    ELSE ids_with_status(diff_items, {"deleted"})

RECURSIVE push_delete_loop(_, _, _, _)
push_delete_loop(todo, dry_run, fail, st) ==
    IF todo = <<>> THEN st
    ELSE LET entity_id == Head(todo)
             next == IF dry_run THEN Deleted(st, entity_id)
                     ELSE IF Fails(fail, "delete", entity_id)
                          THEN Errored(failed_call(st, "delete", entity_id),
                                       entity_id, "delete_remote")
                     ELSE Deleted(delete_remote(st, entity_id), entity_id)
         IN push_delete_loop(Tail(todo), dry_run, fail, next)

\* A variant of push that processes the deletions before the creates and updates.
push_deletions_first(files, remoteStore, force, sync_deletions, dry_run, lorder, fail) ==
    LET localDict == get_local_entities(files, lorder, EmptyDict)
        d == diff(files, remoteStore, lorder)
        st0 == [RunState(files, remoteStore) EXCEPT !.calls = <<ListCall, ListCall>>]
        pairs == renamed_pairs(d.items)
        processed_ids == RenameOlds(pairs) \cup RenameNews(pairs)
        st1 == push_renames(pairs, dry_run, fail, InPhase(st0, "renames"))
        st2 == IF sync_deletions
               THEN push_delete_loop(items_to_delete(force, localDict, remoteStore,
                                                     d.items, processed_ids),
                                     dry_run, fail, InPhase(st1, "deletions"))
               ELSE st1
        st3 == push_save_loop(items_to_process(force, localDict, d.items, processed_ids),
                              localDict, remoteStore, dry_run, fail, InPhase(st2, "saves"))
        st4 == IF ~dry_run /\ has_changes(st3.result)
               THEN reload_remote(InPhase(st3, "reload"), ~Fails(fail, "reload", None))
               ELSE st3
    IN IF d.raised THEN [st0 EXCEPT !.raised = TRUE] ELSE st4

\* A variant of push that processes the deletions whether or not they are asked
\* for.
push_deleting_unasked(files, remoteStore, force, sync_deletions, dry_run, lorder, fail) ==
    LET localDict == get_local_entities(files, lorder, EmptyDict)
        d == diff(files, remoteStore, lorder)
        st0 == [RunState(files, remoteStore) EXCEPT !.calls = <<ListCall, ListCall>>]
        pairs == renamed_pairs(d.items)
        processed_ids == RenameOlds(pairs) \cup RenameNews(pairs)
        st1 == push_renames(pairs, dry_run, fail, InPhase(st0, "renames"))
        st2 == push_save_loop(items_to_process(force, localDict, d.items, processed_ids),
                              localDict, remoteStore, dry_run, fail, InPhase(st1, "saves"))
        st3 == push_delete_loop(items_to_delete(force, localDict, remoteStore,
                                                d.items, processed_ids),
                                dry_run, fail, InPhase(st2, "deletions"))
        st4 == IF ~dry_run /\ has_changes(st3.result)
               THEN reload_remote(InPhase(st3, "reload"), ~Fails(fail, "reload", None))
               ELSE st3
    IN IF d.raised THEN [st0 EXCEPT !.raised = TRUE] ELSE st4

\* push(force, sync_deletions, dry_run): the local and the remote dict are read at
\* the start, then diff() is called, which reads both again.
push(files, remoteStore, force, sync_deletions, dry_run, lorder, fail) ==
    LET localDict == get_local_entities(files, lorder, EmptyDict)
        d == diff(files, remoteStore, lorder)
        st0 == [RunState(files, remoteStore) EXCEPT !.calls = <<ListCall, ListCall>>]
        pairs == renamed_pairs(d.items)
        processed_ids == RenameOlds(pairs) \cup RenameNews(pairs)
        st1 == push_renames(pairs, dry_run, fail, InPhase(st0, "renames"))
        st2 == push_save_loop(items_to_process(force, localDict, d.items, processed_ids),
                              localDict, remoteStore, dry_run, fail, InPhase(st1, "saves"))
        st3 == IF sync_deletions
               THEN push_delete_loop(items_to_delete(force, localDict, remoteStore,
                                                     d.items, processed_ids),
                                     dry_run, fail, InPhase(st2, "deletions"))
               ELSE st2
        st4 == IF ~dry_run /\ has_changes(st3.result)
               THEN reload_remote(InPhase(st3, "reload"), ~Fails(fail, "reload", None))
               ELSE st3
    IN IF d.raised THEN [st0 EXCEPT !.raised = TRUE] ELSE st4

\* The calls a push can be made to fail in: those it issues when nothing fails.
FailChoices(files, remoteStore, force, sync_deletions, dry_run, lorder) ==
    {NoFail} \cup
    {[op |-> c.op, key |-> c.key] :
        c \in {x \in Range(push(files, remoteStore, force, sync_deletions, dry_run,
                                 lorder, NoFail).calls) : x.op # "list"}}

(* ------------------------------------------------------------------ *)
(* helpers.py: HelperSyncer, and the helper models of models.py        *)
(* ------------------------------------------------------------------ *)

\* HELPER_TYPES = list(HELPER_MODELS.keys())
HELPER_TYPES ==
    <<"input_boolean", "input_number", "input_select", "input_text",
      "input_datetime", "input_button">>

\* The helper types and helper ids of the stores of an initial state.  The fields
\* modelled (id, name, icon) are those InputBoolean and InputButton share.
StoreHelperTypes == {"input_boolean", "input_button"}
HelperIds == {"a", "b"}

\* f"{helper_type}/{helper_id}": a full id; also the path of the file
\* "<helper_type>/<helper_id>.yaml" below the helpers directory.
full_id_of(helper_type, helper_id) == helper_type \o "/" \o helper_id

\* full_id.split("/")[0] and full_id.split("/")[-1]
split_pair ==
    [full_id \in {full_id_of(t, i) : t \in Range(HELPER_TYPES), i \in Ids} |->
        CHOOSE p \in Range(HELPER_TYPES) \X Ids : full_id_of(p[1], p[2]) = full_id]
split_first(full_id) == split_pair[full_id][1]
split_last(full_id) == split_pair[full_id][2]

\* model_validate of a helper model raises when the required id or name is missing.
HelperValidates(config) == config.id # None /\ config.name # Absent

\* InputBoolean.normalize / InputButton.normalize: model_dump(exclude_none=True)
\* drops an icon that is None.
InputBoolean_normalize(config) ==
    [id |-> config.id, name |-> config.name,
     icon |-> IF config.icon = None THEN Absent ELSE config.icon]

\* result[key] = value on a dict: a new key goes last, a known key keeps its place.
dict_put(acc, key, value) ==
    [keys |-> IF key \in DOMAIN acc.data THEN acc.keys ELSE Append(acc.keys, key),
     data |-> [k \in DOMAIN acc.data \cup {key} |-> IF k = key THEN value ELSE acc.data[k]]]

\* The paths of the files "<helper_type>/*.yaml" in the order the loops over
\* HELPER_TYPES and over glob visit them; lorder is the order glob yields files in.
RECURSIVE Helper_visit(_, _)
Helper_visit(types, lorder) ==
    IF types = <<>> THEN <<>>
    ELSE SelectSeq(lorder, LAMBDA p : split_first(p) = Head(types))
            \o Helper_visit(Tail(types), lorder)

\* HelperSyncer.get_local_entities: keyed by "<type>/<content id>", the value is
\* the file's data with its type; the file name is not kept.
RECURSIVE Helper_get_local_entities(_, _, _)
Helper_get_local_entities(files, visit, acc) ==
    IF visit = <<>> THEN acc
    ELSE LET p == Head(visit)
             helper_type == split_first(p)
             helper_id == content_id(split_last(p), files[p])
             entry == [type |-> helper_type, id |-> files[p].id,
                       name |-> files[p].name, icon |-> files[p].icon]
         IN Helper_get_local_entities(files, Tail(visit),
                dict_put(acc, full_id_of(helper_type, helper_id), entry))

\* {k: v for k, v in data.items() if k != "type"}
Helper_strip_type(data) == [id |-> data.id, name |-> data.name, icon |-> data.icon]

\* HelperSyncer.get_remote_entities: one listing per helper type, the helpers keyed
\* by "<type>/<id>" in the order of the listings.
Helper_remote_keys(remoteStore) ==
    LET all == [i \in 1..(Len(HELPER_TYPES) * Len(IdOrder)) |->
                   full_id_of(HELPER_TYPES[((i - 1) \div Len(IdOrder)) + 1],
                              IdOrder[((i - 1) % Len(IdOrder)) + 1])]
    IN SelectSeq(all, LAMBDA k : k \in DOMAIN remoteStore)

\* The remote call log of get_remote_entities: get_<type>s for every helper type.
Helper_list_calls == [i \in DOMAIN HELPER_TYPES |->
                         [op |-> "list", key |-> HELPER_TYPES[i], ok |-> TRUE]]

\* HelperSyncer.diff, the rename scan: a renamed item for every file whose filename
\* id differs from its content id while "<type>/<filename id>" is a remote key.
RECURSIVE Helper_diff_renamed(_, _, _)
Helper_diff_renamed(files, visit, remoteStore) ==
    IF visit = <<>> THEN <<>>
    ELSE LET p == Head(visit)
             helper_type == split_first(p)
             filename_id == split_last(p)
             c == content_id(filename_id, files[p])
             old_full_id == full_id_of(helper_type, filename_id)
             new_full_id == full_id_of(helper_type, c)
             rest == Helper_diff_renamed(files, Tail(visit), remoteStore)
         IN IF c # filename_id /\ old_full_id \in DOMAIN remoteStore
            THEN <<DiffItem(old_full_id, "renamed", new_full_id)>> \o rest
            ELSE rest

\* HelperSyncer.diff, the loop over the local entities; renames is the set of the
\* OLD full ids, and a local entity is skipped when its key is in that set.
RECURSIVE Helper_diff_local(_, _, _, _)
Helper_diff_local(keys, localDict, renames, remoteStore) ==
    IF keys = <<>> THEN <<>>
    ELSE LET full_id == Head(keys)
             rest == Helper_diff_local(Tail(keys), localDict, renames, remoteStore)
             local_config == Helper_strip_type(localDict.data[full_id])
             remote_config == ensure_id_in_config(split_last(full_id), remoteStore[full_id])
         IN IF full_id \in renames THEN rest
            ELSE IF full_id \notin DOMAIN remoteStore
                 THEN <<DiffItem(full_id, "added", None)>> \o rest
            ELSE IF InputBoolean_normalize(local_config)
                      # InputBoolean_normalize(remote_config)
                 THEN <<DiffItem(full_id, "modified", None)>> \o rest
            ELSE rest

\* HelperSyncer.diff, the loop over the remote entities.
RECURSIVE Helper_diff_deleted(_, _, _)
Helper_diff_deleted(rorder, localDict, renames) ==
    IF rorder = <<>> THEN <<>>
    ELSE LET full_id == Head(rorder)
             rest == Helper_diff_deleted(Tail(rorder), localDict, renames)
         IN IF full_id \notin DOMAIN localDict.data /\ full_id \notin renames
            THEN <<DiffItem(full_id, "deleted", None)>> \o rest
            ELSE rest

\* model_class.normalize(local_config) raises for a compared local record that
\* fails validation; HelperSyncer.diff has no handler.
Helper_diff_raises(localDict, renames, remoteStore) ==
    \E full_id \in DOMAIN localDict.data :
        /\ full_id \notin renames
        /\ full_id \in DOMAIN remoteStore
        /\ ~HelperValidates(Helper_strip_type(localDict.data[full_id]))

\* HelperSyncer.diff()
Helper_diff(files, remoteStore, lorder) ==
    LET st == [RunState(files, remoteStore) EXCEPT !.calls = Helper_list_calls]
        visit == Helper_visit(HELPER_TYPES, lorder)
        localDict == Helper_get_local_entities(files, visit, EmptyDict)
        renamed == Helper_diff_renamed(files, visit, remoteStore)
        renames == {renamed[i].entity_id : i \in DOMAIN renamed}
    IN DiffRun(st, Helper_diff_raises(localDict, renames, remoteStore),
               renamed
                  \o Helper_diff_local(localDict.keys, localDict, renames, remoteStore)
                  \o Helper_diff_deleted(Helper_remote_keys(remoteStore), localDict, renames))

\* Path.mkdir(parents=True, exist_ok=True): no file is touched.
mkdir(st, dir) == [st EXCEPT !.fops = Append(@, [op |-> "mkdir", file |-> dir])]

RECURSIVE Helper_mkdirs(_, _)
Helper_mkdirs(types, st) ==
    IF types = <<>> THEN st ELSE Helper_mkdirs(Tail(types), mkdir(st, Head(types)))

\* HelperSyncer.pull, the loop over the remote entities: the file written is
\* "<type>/<helper id>.yaml"; a raising normalize of the local record becomes an
\* error entry.
RECURSIVE Helper_pull_remote_loop(_, _, _, _)
Helper_pull_remote_loop(rorder, remoteStore, localDict, st) ==
    IF rorder = <<>> THEN st
    ELSE LET full_id == Head(rorder)
             helper_type == split_first(full_id)
             helper_id == content_id(split_last(full_id), remoteStore[full_id])
             config == ensure_id_in_config(helper_id, remoteStore[full_id])
             ordered == InputBoolean_normalize(config)
             file_path == full_id_of(helper_type, get_filename(helper_id))
             next ==
                 IF full_id \in DOMAIN localDict.data
                 THEN LET local_config == Helper_strip_type(localDict.data[full_id])
                      IN IF ~HelperValidates(local_config)
                         THEN Errored(st, full_id, "ValidationError")
                         ELSE IF ordered # InputBoolean_normalize(local_config)
                              THEN Updated(dump_yaml(st, file_path, ordered), full_id)
                         ELSE st
                 ELSE Created(dump_yaml(st, file_path, ordered), full_id)
         IN Helper_pull_remote_loop(Tail(rorder), remoteStore, localDict, next)

\* HelperSyncer.pull, the deletion loop: the file unlinked is the one named after
\* the entity's id.
RECURSIVE Helper_pull_delete_loop(_, _, _, _)
Helper_pull_delete_loop(keys, remoteStore, localDict, st) ==
    IF keys = <<>> THEN st
    ELSE LET full_id == Head(keys)
             file_path == full_id_of(localDict.data[full_id].type,
                                     get_filename(split_last(full_id)))
             next == IF full_id \notin DOMAIN remoteStore /\ file_path \in DOMAIN st.files
                     THEN Deleted(unlink(st, file_path), full_id)
                     ELSE st
         IN Helper_pull_delete_loop(Tail(keys), remoteStore, localDict, next)

\* HelperSyncer.pull(sync_deletions)
Helper_pull(files, remoteStore, sync_deletions, lorder) ==
    LET st0 == [Helper_mkdirs(HELPER_TYPES, RunState(files, remoteStore))
                   EXCEPT !.calls = Helper_list_calls]
        localDict == Helper_get_local_entities(files, Helper_visit(HELPER_TYPES, lorder),
                                               EmptyDict)
        st1 == Helper_pull_remote_loop(Helper_remote_keys(remoteStore), remoteStore,
                                       localDict, st0)
    IN IF sync_deletions
       THEN Helper_pull_delete_loop(localDict.keys, remoteStore, localDict, st1)
       ELSE st1

\* A remote call that writes: create_<type>, update_<type> and the like store the
\* config under the key; the call is logged under the name given.
remote_write(st, opname, key, config) ==
    [st EXCEPT !.remote = [k \in DOMAIN st.remote \cup {key} |->
                              IF k = key THEN config ELSE st.remote[k]],
               !.calls = Append(@, [op |-> opname, key |-> key, ok |-> TRUE,
                                    phase |-> st.phase, at |-> Tick(st)])]

\* What a helper collection keeps of a config it is sent: the helper is filed
\* under the id of its key.
Helper_stored(key, config) ==
    [id |-> split_last(key), name |-> config.name, icon |-> config.icon]

\* dict.pop(key, default) followed by dict[target] = <the popped value>.
dict_move(acc, key, target, default) ==
    LET value == IF key \in DOMAIN acc.data THEN acc.data[key] ELSE default
        popped == [keys |-> SelectSeq(acc.keys, LAMBDA k : k # key),
                   data |-> [k \in DOMAIN acc.data \ {key} |-> acc.data[k]]]
    IN dict_put(popped, target, value)

\* HelperSyncer.push, one rename: delete the old helper, create one from the file
\* "<type>/<old>.yaml", rename the file, then drop the old key from the remote
\* dict and move the local entry to the new key.  run holds the run state, the
\* keys of the remote dict and the local dict.
Helper_push_rename(old_full_id, new_full_id, dry_run, fail, run) ==
    LET st == run.st
        helper_type == split_first(old_full_id)
        config == st.files[old_full_id]
        entry == [type |-> helper_type, id |-> config.id, name |-> config.name,
                  icon |-> config.icon]
    IN IF dry_run THEN [run EXCEPT !.st = Renamed(st, old_full_id, new_full_id)]
       ELSE IF old_full_id \notin DOMAIN st.files THEN run
       ELSE IF Fails(fail, "delete", old_full_id)
            THEN [run EXCEPT !.st = Errored(failed_call(st, "delete", old_full_id),
                                            old_full_id, "delete_helper")]
       ELSE IF Fails(fail, "create", new_full_id)
            THEN [run EXCEPT !.st = Errored(failed_call(delete_remote(st, old_full_id),
                                                        "create", new_full_id),
                                            old_full_id, "create_helper")]
       ELSE [st |-> Renamed(rename_file(remote_write(delete_remote(st, old_full_id),
                                                     "create", new_full_id,
                                                     Helper_stored(new_full_id, config)),
                                        old_full_id, new_full_id),
                            old_full_id, new_full_id),
             rkeys |-> SelectSeq(run.rkeys, LAMBDA k : k # old_full_id),
             localDict |-> dict_move(run.localDict, old_full_id, new_full_id, entry)]

RECURSIVE Helper_push_renames(_, _, _, _)
Helper_push_renames(renames, dry_run, fail, run) ==
    IF renames = <<>> THEN run
    ELSE Helper_push_renames(Tail(renames), dry_run, fail,
             Helper_push_rename(Head(renames)[1], Head(renames)[2], dry_run, fail, run))

\* HelperSyncer.push, the loop over the local entities: every entity that is no
\* old key of a rename is updated when its key is in the remote dict and created
\* otherwise; force is not consulted.
RECURSIVE Helper_push_save_loop(_, _, _, _, _, _, _)
Helper_push_save_loop(keys, localDict, rkeys, olds, dry_run, fail, st) ==
    IF keys = <<>> THEN st
    ELSE LET full_id == Head(keys)
             data == localDict.data[full_id]
             helper_id == content_id(split_last(full_id), data)
             target == full_id_of(data.type, helper_id)
             config == Helper_strip_type(data)
             is_update == full_id \in Range(rkeys)
             opname == IF is_update THEN "update" ELSE "create"
             key == IF is_update THEN target ELSE full_id
             record(s) == IF is_update THEN Updated(s, full_id) ELSE Created(s, full_id)
             next == IF full_id \in olds THEN st
                     ELSE IF dry_run THEN record(st)
                     ELSE IF Fails(fail, opname, key)
                          THEN Errored(failed_call(st, opname, key), full_id, opname)
                     ELSE record(remote_write(st, opname, key, Helper_stored(key, config)))
         IN Helper_push_save_loop(Tail(keys), localDict, rkeys, olds, dry_run, fail, next)

\* HelperSyncer.push, the deletions: every key of the remote dict that is no
\* local entity and no old key of a rename.
RECURSIVE Helper_push_delete_loop(_, _, _, _, _, _)
Helper_push_delete_loop(rkeys, localDict, olds, dry_run, fail, st) ==
    IF rkeys = <<>> THEN st
    ELSE LET full_id == Head(rkeys)
             next == IF full_id \in DOMAIN localDict.data \/ full_id \in olds THEN st
                     ELSE IF dry_run THEN Deleted(st, full_id)
                     ELSE IF Fails(fail, "delete", full_id)
                          THEN Errored(failed_call(st, "delete", full_id),
                                       full_id, "delete_helper")
                     ELSE Deleted(delete_remote(st, full_id), full_id)
         IN Helper_push_delete_loop(Tail(rkeys), localDict, olds, dry_run, fail, next)

\* HelperSyncer.push(force, sync_deletions, dry_run): the scan for renames is the
\* one of diff; diff itself is not called.
Helper_push(files, remoteStore, force, sync_deletions, dry_run, lorder, fail) ==
    LET visit == Helper_visit(HELPER_TYPES, lorder)
        st0 == [RunState(files, remoteStore) EXCEPT !.calls = Helper_list_calls]
        renames == renamed_pairs(Helper_diff_renamed(files, visit, remoteStore))
        olds == RenameOlds(renames)
        run1 == Helper_push_renames(renames, dry_run, fail,
                    [st |-> InPhase(st0, "renames"),
                     rkeys |-> Helper_remote_keys(remoteStore),
                     localDict |-> Helper_get_local_entities(files, visit, EmptyDict)])
        st2 == Helper_push_save_loop(run1.localDict.keys, run1.localDict, run1.rkeys, olds,
                                     dry_run, fail, InPhase(run1.st, "saves"))
        st3 == IF sync_deletions
               THEN Helper_push_delete_loop(run1.rkeys, run1.localDict, olds, dry_run, fail,
                                            InPhase(st2, "deletions"))
               ELSE st2
    IN IF ~dry_run /\ has_changes(st3.result)
       THEN reload_remote(InPhase(st3, "reload"), ~Fails(fail, "reload", None))
       ELSE st3

\* The calls a helper push can be made to fail in: those it issues when nothing
\* fails.
Helper_FailChoices(files, remoteStore, force, sync_deletions, dry_run, lorder) ==
    {NoFail} \cup
    {[op |-> c.op, key |-> c.key] :
        c \in {x \in Range(Helper_push(files, remoteStore, force, sync_deletions, dry_run,
                                        lorder, NoFail).calls) : x.op # "list"}}

(* ------------------------------------------------------------------ *)
(* config_entries.py: ConfigEntrySyncer (one domain), utils.py names   *)
(* ------------------------------------------------------------------ *)

\* The names (titles) of config entries.
Names == {"", "Foo", "foo", "Bar"}

\* slugify(text): lower case, runs of other characters become "_", stripped.
slugify == [text \in Names |->
               CASE text = "" -> ""
                 [] text \in {"Foo", "foo"} -> "foo"
                 [] text = "Bar" -> "bar"]

\* filename_from_name(name, fallback_id), without the ".yaml" every name ends in.
filename_from_name(name, fallback_id) ==
    IF name # "" /\ slugify[name] # "" THEN slugify[name] ELSE fallback_id

\* ConfigEntrySyncer._get_filename: a taken name gets the entry id as a suffix.
ConfigEntry_get_filename(name, entry_id, existing_filenames) ==
    LET filename == filename_from_name(name, entry_id)
    IN IF filename \notin existing_filenames THEN filename
       ELSE filename \o "-" \o entry_id

\* ConfigEntrySyncer._normalize: with or without a model, and also when the model
\* rejects the data, the keys with a None value are dropped.
ConfigEntry_normalize(data) ==
    [entry_id |-> data.entry_id,
     name |-> IF data.name = None THEN Absent ELSE data.name,
     after_time |-> IF data.after_time = None THEN Absent ELSE data.after_time]

\* TodHelper.model_validate(data) does not raise: the required string fields hold
\* a value.
TodHelper_validates(data) ==
    /\ data.entry_id \notin {Absent, None}
    /\ data.name \notin {Absent, None}
    /\ data.after_time \notin {Absent, None}

\* {k: v for k, v in local_data.items() if k != "_filename"}
ConfigEntry_strip_filename(data) ==
    [entry_id |-> data.entry_id, name |-> data.name, after_time |-> data.after_time]

\* _get_helpers and get_remote_entities: the entries are listed, the options of
\* each are read; an entry whose read raises is left out.
ConfigEntry_get_remote_entities(remoteStore, fail) ==
    [entry_id \in {k \in DOMAIN remoteStore : ~Fails(fail, "read", k)} |->
        remoteStore[entry_id]]

\* The remote call log of get_remote_entities.
ConfigEntry_remote_calls(remoteStore, fail) ==
    LET rorder == remote_keys(remoteStore)
    IN <<ListCall>> \o [i \in DOMAIN rorder |->
                          [op |-> "read", key |-> rorder[i],
                           ok |-> ~Fails(fail, "read", rorder[i])]]

\* ConfigEntrySyncer.get_local_entities: keyed by the entry_id of the content; a
\* file without entry_id is no entity.
RECURSIVE ConfigEntry_get_local_entities(_, _, _)
ConfigEntry_get_local_entities(files, order, acc) ==
    IF order = <<>> THEN acc
    ELSE LET f == Head(order)
             entry == [entry_id |-> files[f].entry_id, name |-> files[f].name,
                       after_time |-> files[f].after_time, filename |-> f]
         IN ConfigEntry_get_local_entities(files, Tail(order),
                IF files[f].entry_id = Absent THEN acc
                ELSE dict_put(acc, files[f].entry_id, entry))

\* ConfigEntrySyncer.diff, the loop over the local entities.
RECURSIVE ConfigEntry_diff_local(_, _, _)
ConfigEntry_diff_local(keys, localDict, remoteDict) ==
    IF keys = <<>> THEN <<>>
    ELSE LET entry_id == Head(keys)
             rest == ConfigEntry_diff_local(Tail(keys), localDict, remoteDict)
             local_clean == ConfigEntry_strip_filename(localDict.data[entry_id])
         IN IF entry_id \notin DOMAIN remoteDict
            THEN <<DiffItem(entry_id, "added", None)>> \o rest
            ELSE IF ConfigEntry_normalize(local_clean)
                      # ConfigEntry_normalize(remoteDict[entry_id])
                 THEN <<DiffItem(entry_id, "modified", None)>> \o rest
            ELSE rest

\* ConfigEntrySyncer.diff, the loop over the remote entities.
RECURSIVE ConfigEntry_diff_deleted(_, _)
ConfigEntry_diff_deleted(rorder, localDict) ==
    IF rorder = <<>> THEN <<>>
    ELSE LET rest == ConfigEntry_diff_deleted(Tail(rorder), localDict)
         IN IF Head(rorder) \notin DOMAIN localDict.data
            THEN <<DiffItem(Head(rorder), "deleted", None)>> \o rest
            ELSE rest

\* ConfigEntrySyncer.diff()
ConfigEntry_diff(files, remoteStore, lorder, fail) ==
    LET st == [RunState(files, remoteStore)
                  EXCEPT !.calls = ConfigEntry_remote_calls(remoteStore, fail)]
        remoteDict == ConfigEntry_get_remote_entities(remoteStore, fail)
        localDict == ConfigEntry_get_local_entities(files, lorder, EmptyDict)
    IN DiffRun(st, FALSE,
               ConfigEntry_diff_local(localDict.keys, localDict, remoteDict)
                  \o ConfigEntry_diff_deleted(remote_keys(remoteDict), localDict))

\* ConfigEntrySyncer.pull, the loop over the remote entities: an entity whose file
\* is not named as its name asks is written anew and the old file unlinked.
RECURSIVE ConfigEntry_pull_remote_loop(_, _, _, _, _)
ConfigEntry_pull_remote_loop(rorder, remoteDict, localDict, used_filenames, st) ==
    IF rorder = <<>> THEN st
    ELSE LET entry_id == Head(rorder)
             data == remoteDict[entry_id]
             ordered == ConfigEntry_normalize(data)
             expected_filename ==
                 ConfigEntry_get_filename(data.name, entry_id, used_filenames)
             next ==
                 IF entry_id \in DOMAIN localDict.data
                 THEN LET local_data == localDict.data[entry_id]
                          current_filename == local_data.filename
                          local_normalized ==
                              ConfigEntry_normalize(ConfigEntry_strip_filename(local_data))
                      IN IF current_filename # expected_filename
                         THEN IF current_filename \in DOMAIN st.files
                              THEN Renamed(unlink(dump_yaml(st, expected_filename, ordered),
                                                  current_filename),
                                           entry_id, entry_id)
                              ELSE st
                         ELSE IF ordered # local_normalized
                              THEN Updated(dump_yaml(st, current_filename, ordered), entry_id)
                         ELSE st
                 ELSE Created(dump_yaml(st, expected_filename, ordered), entry_id)
         IN ConfigEntry_pull_remote_loop(Tail(rorder), remoteDict, localDict,
                                         used_filenames \cup {expected_filename}, next)

\* ConfigEntrySyncer.pull, the deletion loop: the file the entity was read from.
RECURSIVE ConfigEntry_pull_delete_loop(_, _, _, _)
ConfigEntry_pull_delete_loop(keys, remoteDict, localDict, st) ==
    IF keys = <<>> THEN st
    ELSE LET entry_id == Head(keys)
             filename == localDict.data[entry_id].filename
             next == IF entry_id \notin DOMAIN remoteDict /\ filename \in DOMAIN st.files
                     THEN Deleted(unlink(st, filename), entry_id)
                     ELSE st
         IN ConfigEntry_pull_delete_loop(Tail(keys), remoteDict, localDict, next)

\* ConfigEntrySyncer.pull(sync_deletions)
ConfigEntry_pull(files, remoteStore, sync_deletions, lorder, fail) ==
    LET st0 == [mkdir(RunState(files, remoteStore), "")
                   EXCEPT !.calls = ConfigEntry_remote_calls(remoteStore, fail)]
        remoteDict == ConfigEntry_get_remote_entities(remoteStore, fail)
        localDict == ConfigEntry_get_local_entities(files, lorder, EmptyDict)
        st1 == ConfigEntry_pull_remote_loop(remote_keys(remoteDict), remoteDict,
                                            localDict, {}, st0)
    IN IF sync_deletions
       THEN ConfigEntry_pull_delete_loop(localDict.keys, remoteDict, localDict, st1)
       ELSE st1

\* The entry id a create call returns: Home Assistant makes up an id no entry
\* has; fresh is the order it draws ids in, None stands for a call that fails
\* because no id is left.
new_entry_id(fresh, taken) ==
    LET free == SelectSeq(fresh, LAMBDA i : i \notin taken)
    IN IF free = <<>> THEN None ELSE Head(free)

\* A create call that returns the id of the new entry: the config is stored under
\* that id; the call is logged by the key of the entity it was made for.
remote_create(st, opname, key, new_id, config) ==
    [st EXCEPT !.remote = [k \in DOMAIN st.remote \cup {new_id} |->
                              IF k = new_id THEN config ELSE st.remote[k]],
               !.calls = Append(@, [op |-> opname, key |-> key, ok |-> TRUE,
                                    phase |-> st.phase, at |-> Tick(st)])]

\* name = data.get("name", entry_id), then filename_from_name(name, fallback_id).
filename_of_entry(data, entry_id, fallback_id) ==
    IF data.name = Absent THEN entry_id
    ELSE IF data.name = None THEN fallback_id
    ELSE filename_from_name(data.name, fallback_id)

\* ConfigEntrySyncer.push: the entities to create or update.
ConfigEntry_items_to_process(force, localDict, diff_items) ==
    IF force THEN localDict.keys
    ELSE SelectSeq(ids_with_status(diff_items, {"added", "modified"}),
                   LAMBDA k : k \in DOMAIN localDict.data)

\* ConfigEntrySyncer.push, the loop over the items to process: an entity of the
\* remote dict is updated; another one is created, its file rewritten with the
\* id the create returned and the file it was read from unlinked when the name
\* differs.
RECURSIVE ConfigEntry_push_save_loop(_, _, _, _, _, _, _)
ConfigEntry_push_save_loop(keys, localDict, remoteDict, dry_run, fail, fresh, st) ==
    IF keys = <<>> THEN st
    ELSE LET entry_id == Head(keys)
             data == localDict.data[entry_id]
             current_filename == data.filename
             config == ConfigEntry_strip_filename(data)
             is_update == entry_id \in DOMAIN remoteDict
             new_id == new_entry_id(fresh, DOMAIN st.remote)
             new_filename == filename_of_entry(data, entry_id, new_id)
             written == dump_yaml(remote_create(st, "create", entry_id, new_id,
                                                [config EXCEPT !.entry_id = new_id]),
                                  new_filename, [config EXCEPT !.entry_id = new_id])
             next ==
                 IF is_update
                 THEN IF dry_run THEN Updated(st, entry_id)
                      ELSE IF Fails(fail, "update", entry_id)
                           THEN Errored(failed_call(st, "update", entry_id),
                                        entry_id, "update_config_entry")
                      ELSE Updated(remote_write(st, "update", entry_id, config), entry_id)
                 ELSE IF dry_run THEN Created(st, entry_id)
                      ELSE IF Fails(fail, "create", entry_id) \/ new_id = None
                           THEN Errored(failed_call(st, "create", entry_id),
                                        entry_id, "create_config_entry")
                      ELSE IF current_filename # new_filename
                                /\ current_filename \in DOMAIN written.files
                           THEN unlink(Created(written, entry_id), current_filename)
                      ELSE Created(written, entry_id)
         IN ConfigEntry_push_save_loop(Tail(keys), localDict, remoteDict, dry_run, fail,
                                       fresh, next)

\* ConfigEntrySyncer.push: the entities to delete.
ConfigEntry_items_to_delete(force, localDict, remoteDict, diff_items) ==
    IF force THEN SelectSeq(remote_keys(remoteDict), LAMBDA k : k \notin DOMAIN localDict.data)
    ELSE ids_with_status(diff_items, {"deleted"})

\* ConfigEntrySyncer.push, the deletion loop.
RECURSIVE ConfigEntry_push_delete_loop(_, _, _, _)
ConfigEntry_push_delete_loop(keys, dry_run, fail, st) ==
    IF keys = <<>> THEN st
    ELSE LET entry_id == Head(keys)
             next == IF dry_run THEN Deleted(st, entry_id)
                     ELSE IF Fails(fail, "delete", entry_id)
                          THEN Errored(failed_call(st, "delete", entry_id),
                                       entry_id, "delete_config_entry")
                     ELSE Deleted(delete_remote(st, entry_id), entry_id)
         IN ConfigEntry_push_delete_loop(Tail(keys), dry_run, fail, next)

\* ConfigEntrySyncer.push(force, sync_deletions, dry_run): the remote entities are
\* fetched once and handed to diff.
ConfigEntry_push(files, remoteStore, force, sync_deletions, dry_run, lorder, fail, fresh) ==
    LET d == ConfigEntry_diff(files, remoteStore, lorder, NoFail)
        remoteDict == ConfigEntry_get_remote_entities(remoteStore, NoFail)
        localDict == ConfigEntry_get_local_entities(files, lorder, EmptyDict)
        st1 == ConfigEntry_push_save_loop(
                   ConfigEntry_items_to_process(force, localDict, d.items),
                   localDict, remoteDict, dry_run, fail, fresh, InPhase(d.st, "saves"))
    IN IF sync_deletions
       THEN ConfigEntry_push_delete_loop(
                ConfigEntry_items_to_delete(force, localDict, remoteDict, d.items),
                dry_run, fail, InPhase(st1, "deletions"))
       ELSE st1

\* The calls a config entry push can be made to fail in: those it issues when
\* nothing fails.
ConfigEntry_FailChoices(files, remoteStore, force, sync_deletions, dry_run, lorder, fresh) ==
    {NoFail} \cup
    {[op |-> c.op, key |-> c.key] :
        c \in {x \in Range(ConfigEntry_push(files, remoteStore, force, sync_deletions,
                                             dry_run, lorder, NoFail, fresh).calls) :
                  x.op \notin {"list", "read"}}}

(* ------------------------------------------------------------------ *)
(* templates.py: TemplateSyncer, and the template models of models.py  *)
(* ------------------------------------------------------------------ *)

\* The template entity types (step ids) of the stores; each names a directory.
TemplateSubtypes == {"sensor", "binary_sensor"}

\* The file names (without ".yaml") of template files: an entry id, the slug of a
\* name, or a slug with an entry id as its suffix.
TemplateStems ==
    Ids \cup {slugify[n] : n \in Names \ {""}}
        \cup {slugify[n] \o "-" \o i : n \in Names \ {""}, i \in Ids}

\* The directory and the file name of a path "<subtype>/<name>.yaml".
Template_path ==
    [p \in {full_id_of(t, f) : t \in TemplateSubtypes, f \in TemplateStems} |->
        CHOOSE q \in TemplateSubtypes \X TemplateStems : full_id_of(q[1], q[2]) = p]

\* model_validate of TemplateSensor / TemplateBinarySensor: entry_id and name are
\* required, step_id is the literal of the subtype.
Template_validates(subtype, config) ==
    /\ config.entry_id \notin {Absent, None}
    /\ config.name \notin {Absent, None}
    /\ config.step_id \in {Absent, subtype}

\* model_class.normalize(config): step_id carries its default, None is dropped.
Template_model_normalize(subtype, config) ==
    [entry_id |-> config.entry_id, name |-> config.name, step_id |-> subtype,
     id |-> IF config.id = None THEN Absent ELSE config.id]

\* try: model_class.normalize(config) / except Exception: config
Template_normalize(subtype, config) ==
    IF Template_validates(subtype, config) THEN Template_model_normalize(subtype, config)
    ELSE config

\* TemplateSyncer._get_filename
Template_get_filename(name, entry_id, existing_filenames) ==
    ConfigEntry_get_filename(name, entry_id, existing_filenames)

\* {k: v for k, v in data.items() if k not in ("subtype", "_filename")}
Template_strip(data) ==
    [entry_id |-> data.entry_id, name |-> data.name, step_id |-> data.step_id,
     id |-> data.id]

\* The files in the order iterdir yields the subtype directories and glob the
\* files of each: the directories by their first file in lorder.
RECURSIVE Template_visit(_)
Template_visit(lorder) ==
    IF lorder = <<>> THEN <<>>
    ELSE LET subtype == Template_path[Head(lorder)][1]
         IN SelectSeq(lorder, LAMBDA p : Template_path[p][1] = subtype)
               \o Template_visit(SelectSeq(lorder, LAMBDA p : Template_path[p][1] # subtype))

\* TemplateSyncer.get_local_entities: keyed by "<subtype>/<entry_id>", or by
\* "<subtype>/_new/<file name>" for a file without entry_id.
RECURSIVE Template_get_local_entities(_, _, _)
Template_get_local_entities(files, visit, acc) ==
    IF visit = <<>> THEN acc
    ELSE LET p == Head(visit)
             subtype == Template_path[p][1]
             key == IF files[p].entry_id \notin {Absent, None}
                    THEN full_id_of(subtype, files[p].entry_id)
                    ELSE full_id_of(full_id_of(subtype, "_new"), Template_path[p][2])
             entry == [subtype |-> subtype, filename |-> Template_path[p][2],
                       entry_id |-> files[p].entry_id, name |-> files[p].name,
                       step_id |-> files[p].step_id, id |-> files[p].id]
         IN Template_get_local_entities(files, Tail(visit), dict_put(acc, key, entry))

\* TemplateSyncer.get_remote_entities: the keys "<step_id>/<entry_id>" in the order
\* of the listing of the template helpers.
Template_remote_keys(remoteStore) ==
    LET subtypes == <<"sensor", "binary_sensor">>
        all == [i \in 1..(Len(subtypes) * Len(IdOrder)) |->
                   full_id_of(subtypes[((i - 1) \div Len(IdOrder)) + 1],
                              IdOrder[((i - 1) % Len(IdOrder)) + 1])]
    IN SelectSeq(all, LAMBDA k : k \in DOMAIN remoteStore)

\* The remote call log of get_remote_entities: the template helpers are listed,
\* and the entity registry is listed once when there is a helper to look up.
Template_remote_calls(remoteStore) ==
    <<[op |-> "list", key |-> "template", ok |-> TRUE]>>
        \o (IF DOMAIN remoteStore = {} THEN <<>>
            ELSE <<[op |-> "list", key |-> "entity_registry", ok |-> TRUE]>>)

\* TemplateSyncer.diff, the loop over the local entities; when either record fails
\* validation both are compared as they are.
RECURSIVE Template_diff_local(_, _, _)
Template_diff_local(keys, localDict, remoteStore) ==
    IF keys = <<>> THEN <<>>
    ELSE LET full_id == Head(keys)
             rest == Template_diff_local(Tail(keys), localDict, remoteStore)
             subtype == localDict.data[full_id].subtype
             local_config == Template_strip(localDict.data[full_id])
             remote_config == remoteStore[full_id]
             both == Template_validates(subtype, local_config)
                        /\ Template_validates(subtype, remote_config)
             local_normalized ==
                 IF both THEN Template_model_normalize(subtype, local_config)
                 ELSE local_config
             remote_normalized ==
                 IF both THEN Template_model_normalize(subtype, remote_config)
                 ELSE remote_config
         IN IF full_id \notin DOMAIN remoteStore
            THEN <<DiffItem(full_id, "added", None)>> \o rest
            ELSE IF local_normalized # remote_normalized
                 THEN <<DiffItem(full_id, "modified", None)>> \o rest
            ELSE rest

\* TemplateSyncer.diff, the loop over the remote entities.
RECURSIVE Template_diff_deleted(_, _)
Template_diff_deleted(rorder, localDict) ==
    IF rorder = <<>> THEN <<>>
    ELSE LET rest == Template_diff_deleted(Tail(rorder), localDict)
         IN IF Head(rorder) \notin DOMAIN localDict.data
            THEN <<DiffItem(Head(rorder), "deleted", None)>> \o rest
            ELSE rest

\* TemplateSyncer.diff().  Every item is built as DiffItem(..., file_path=...); the
\* DiffItem of base.py declares no file_path, the one cli.py reads item.file_path
\* of does: with the former the first item raises a TypeError (file_path_ok is
\* FALSE), with the latter the list is returned.
Template_diff(files, remoteStore, lorder, file_path_ok) ==
    LET st == [RunState(files, remoteStore) EXCEPT !.calls = Template_remote_calls(remoteStore)]
        localDict == Template_get_local_entities(files, Template_visit(lorder), EmptyDict)
        its == Template_diff_local(localDict.keys, localDict, remoteStore)
                  \o Template_diff_deleted(Template_remote_keys(remoteStore), localDict)
    IN DiffRun(st, its # <<>> /\ ~file_path_ok, its)

\* The file operations of a pull that is no dry run; a dry run only reports.
Template_write(st, dry_run, file, data) == IF dry_run THEN st ELSE dump_yaml(st, file, data)
Template_unlink(st, dry_run, file) == IF dry_run THEN st ELSE unlink(st, file)
Template_mkdir(st, dry_run, dir) == IF dry_run THEN st ELSE mkdir(st, dir)

\* TemplateSyncer.pull, the loop over the remote entities; used_filenames holds
\* the names taken so far in each subtype directory.
RECURSIVE Template_pull_remote_loop(_, _, _, _, _, _)
Template_pull_remote_loop(rorder, remoteStore, localDict, used_filenames, dry_run, st) ==
    IF rorder = <<>> THEN st
    ELSE LET full_id == Head(rorder)
             data == remoteStore[full_id]
             subtype == data.step_id
             entry_id == data.entry_id
             st1 == Template_mkdir(st, dry_run, subtype)
             ordered == Template_normalize(subtype, data)
             expected_filename ==
                 Template_get_filename(data.name, entry_id, used_filenames[subtype])
             next ==
                 IF full_id \in DOMAIN localDict.data
                 THEN LET local_data == localDict.data[full_id]
                          current_filename == local_data.filename
                          old_path == full_id_of(subtype, current_filename)
                          new_path == full_id_of(subtype, expected_filename)
                          local_normalized ==
                              Template_normalize(subtype, Template_strip(local_data))
                      IN IF current_filename # expected_filename
                         THEN IF old_path \in DOMAIN st1.files
                              THEN Renamed(Template_unlink(
                                               Template_write(st1, dry_run, new_path, ordered),
                                               dry_run, old_path),
                                           full_id, full_id)
                              ELSE st1
                         ELSE IF ordered # local_normalized
                              THEN Updated(Template_write(st1, dry_run, old_path, ordered),
                                           full_id)
                         ELSE st1
                 ELSE Created(Template_write(st1, dry_run,
                                             full_id_of(subtype, expected_filename), ordered),
                              full_id)
         IN Template_pull_remote_loop(Tail(rorder), remoteStore, localDict,
                [used_filenames EXCEPT ![subtype] = @ \cup {expected_filename}],
                dry_run, next)

\* TemplateSyncer.pull, the deletion loop: the file the entity was read from.
RECURSIVE Template_pull_delete_loop(_, _, _, _, _)
Template_pull_delete_loop(keys, remoteStore, localDict, dry_run, st) ==
    IF keys = <<>> THEN st
    ELSE LET full_id == Head(keys)
             file_path == full_id_of(localDict.data[full_id].subtype,
                                     localDict.data[full_id].filename)
             next == IF full_id \notin DOMAIN remoteStore /\ file_path \in DOMAIN st.files
                     THEN Deleted(Template_unlink(st, dry_run, file_path), full_id)
                     ELSE st
         IN Template_pull_delete_loop(Tail(keys), remoteStore, localDict, dry_run, next)

\* TemplateSyncer.pull(sync_deletions, dry_run)
Template_pull(files, remoteStore, sync_deletions, dry_run, lorder) ==
    LET st0 == [Template_mkdir(RunState(files, remoteStore), dry_run, "")
                   EXCEPT !.calls = Template_remote_calls(remoteStore)]
        localDict == Template_get_local_entities(files, Template_visit(lorder), EmptyDict)
        st1 == Template_pull_remote_loop(Template_remote_keys(remoteStore), remoteStore,
                                         localDict, [t \in TemplateSubtypes |-> {}],
                                         dry_run, st0)
    IN IF sync_deletions
       THEN Template_pull_delete_loop(localDict.keys, remoteStore, localDict, dry_run, st1)
       ELSE st1

\* The entity ids of the entity registry, "<domain>.<object id>", and the domain
\* of each: entity_id.split(".")[0].
EntityIdOf(domain, object_id) == domain \o "." \o object_id
EntityObjects == {"x", "foo", "bar"}
entity_domain ==
    [e \in {EntityIdOf(t, o) : t \in TemplateSubtypes, o \in EntityObjects} |->
        CHOOSE t \in TemplateSubtypes : \E o \in EntityObjects : EntityIdOf(t, o) = e]

\* _get_entity_registry_for_entry: the registry is listed when the cache is empty.
\* run holds the run state and whether the cache is filled.
Template_registry_lookup(run) ==
    IF run.cache THEN run
    ELSE [st |-> [run.st EXCEPT !.calls = Append(@, [op |-> "list", key |-> "entity_registry",
                                                     ok |-> TRUE])],
          cache |-> TRUE]

\* TemplateSyncer._update_entity_id: the entity of the entry at key is given the
\* entity id of the local config when the domain fits and the ids differ; a
\* failing registry call is swallowed.  Hands back the run and the pair
\* (current id, local id), or None.  Every entity id here is in full form, so
\* _expand_entity_id leaves it as it is.
Template_update_entity_id(run, key, local_id, subtype, dry_run, fail) ==
    IF entity_domain[local_id] # subtype THEN [run |-> run, pair |-> None]
    ELSE LET run1 == Template_registry_lookup(run)
             st == run1.st
             current_id == st.remote[key].id
         IN IF key \notin DOMAIN st.remote THEN [run |-> run1, pair |-> None]
            ELSE IF current_id \in {Absent, None} \/ current_id = local_id
                 THEN [run |-> run1, pair |-> None]
            ELSE IF dry_run THEN [run |-> run1, pair |-> <<current_id, local_id>>]
            ELSE IF Fails(fail, "rename_entity", key)
                 THEN [run |-> [run1 EXCEPT !.st = failed_call(st, "rename_entity", key)],
                       pair |-> None]
            ELSE [run |-> [st |-> remote_write(st, "rename_entity", key,
                                               [st.remote[key] EXCEPT !.id = local_id]),
                           cache |-> FALSE],
                  pair |-> <<current_id, local_id>>]

\* result.renamed.append(rename_result) when _update_entity_id handed back a pair.
Template_entity_renamed(upd) ==
    IF upd.pair = None THEN upd.run
    ELSE [upd.run EXCEPT !.st = Renamed(@, upd.pair[1], upd.pair[2])]

\* TemplateSyncer.push: the entities to create or update.
Template_items_to_process(force, localDict, diff_items) ==
    ConfigEntry_items_to_process(force, localDict, diff_items)

\* TemplateSyncer.push, the loop over the items to process.  remoteKeys are the
\* keys of the remote dict fetched at the start.
RECURSIVE Template_push_save_loop(_, _, _, _, _, _, _)
Template_push_save_loop(keys, localDict, remoteKeys, dry_run, fail, fresh, run) ==
    IF keys = <<>> THEN run
    ELSE LET full_id == Head(keys)
             st == run.st
             data == localDict.data[full_id]
             subtype == data.subtype
             entry_id == IF data.entry_id = Absent THEN None ELSE data.entry_id
             local_id == data.id
             has_local_id == local_id \notin {Absent, None}
             current_filename == data.filename
             is_update == full_id \in remoteKeys /\ entry_id # None
             new_id == new_entry_id(fresh, {Template_path[k][2] : k \in DOMAIN st.remote})
             new_key == full_id_of(subtype, new_id)
             new_filename ==
                 filename_of_entry(data, IF entry_id = None THEN full_id ELSE entry_id, new_id)
             old_path == full_id_of(subtype, current_filename)
             updated ==
                 Updated(remote_write(st, "update", full_id,
                                      [st.remote[full_id] EXCEPT !.name = data.name]),
                         full_id)
             created ==
                 Created(remote_create(st, "create", full_id, new_key,
                                       [entry_id |-> new_id, name |-> data.name,
                                        step_id |-> subtype,
                                        id |-> EntityIdOf(subtype, slugify[data.name])]),
                         full_id)
             written ==
                 dump_yaml(created, full_id_of(subtype, new_filename),
                           [entry_id |-> new_id, name |-> data.name, step_id |-> data.step_id,
                            id |-> IF has_local_id THEN local_id ELSE Absent])
             filed == IF current_filename # new_filename /\ old_path \in DOMAIN written.files
                      THEN unlink(written, old_path)
                      ELSE written
             next ==
                 IF is_update
                 THEN IF dry_run
                      THEN IF has_local_id
                           THEN Template_update_entity_id(
                                    [run EXCEPT !.st = Updated(st, full_id)],
                                    full_id, local_id, subtype, TRUE, fail).run
                           ELSE [run EXCEPT !.st = Updated(st, full_id)]
                      ELSE IF Fails(fail, "update", full_id)
                           THEN [run EXCEPT !.st = Errored(failed_call(st, "update", full_id),
                                                           full_id, "update_template_helper")]
                      ELSE IF has_local_id
                           THEN Template_entity_renamed(Template_update_entity_id(
                                    [run EXCEPT !.st = updated],
                                    full_id, local_id, subtype, FALSE, fail))
                           ELSE [run EXCEPT !.st = updated]
                 ELSE IF dry_run THEN [run EXCEPT !.st = Created(st, full_id)]
                      ELSE IF Fails(fail, "create", full_id) \/ new_id = None
                           THEN [run EXCEPT !.st = Errored(failed_call(st, "create", full_id),
                                                           full_id, "create_template_helper")]
                      ELSE IF has_local_id
                           THEN Template_entity_renamed(Template_update_entity_id(
                                    [st |-> filed, cache |-> FALSE],
                                    new_key, local_id, subtype, FALSE, fail))
                           ELSE [run EXCEPT !.st = filed]
         IN Template_push_save_loop(Tail(keys), localDict, remoteKeys, dry_run, fail,
                                    fresh, next)

\* TemplateSyncer.push: the entities to delete.
Template_items_to_delete(force, localDict, remoteStore, diff_items) ==
    IF force THEN SelectSeq(Template_remote_keys(remoteStore),
                            LAMBDA k : k \notin DOMAIN localDict.data)
    ELSE ids_with_status(diff_items, {"deleted"})

\* TemplateSyncer.push, the deletion loop.
RECURSIVE Template_push_delete_loop(_, _, _, _)
Template_push_delete_loop(keys, dry_run, fail, st) ==
    IF keys = <<>> THEN st
    ELSE LET full_id == Head(keys)
             next == IF dry_run THEN Deleted(st, full_id)
                     ELSE IF Fails(fail, "delete", full_id)
                          THEN Errored(failed_call(st, "delete", full_id),
                                       full_id, "delete_template_helper")
                     ELSE Deleted(delete_remote(st, full_id), full_id)
         IN Template_push_delete_loop(Tail(keys), dry_run, fail, next)

\* TemplateSyncer.push(force, sync_deletions, dry_run): the remote entities are
\* fetched once and handed to diff; a diff that raises ends the push.
Template_push(files, remoteStore, force, sync_deletions, dry_run, lorder, fail, fresh, file_path_ok) ==
    LET d == Template_diff(files, remoteStore, lorder, file_path_ok)
        localDict == Template_get_local_entities(files, Template_visit(lorder), EmptyDict)
        run1 == Template_push_save_loop(
                    Template_items_to_process(force, localDict, d.items), localDict,
                    DOMAIN remoteStore, dry_run, fail, fresh,
                    [st |-> InPhase(d.st, "saves"), cache |-> DOMAIN remoteStore # {}])
        st2 == IF sync_deletions
               THEN Template_push_delete_loop(
                        Template_items_to_delete(force, localDict, remoteStore, d.items),
                        dry_run, fail, InPhase(run1.st, "deletions"))
               ELSE run1.st
    IN IF d.raised THEN [d.st EXCEPT !.raised = TRUE] ELSE st2

\* The calls a template push can be made to fail in: those it issues when nothing
\* fails.
Template_FailChoices(files, remoteStore, force, sync_deletions, dry_run, lorder, fresh, file_path_ok) ==
    {NoFail} \cup
    {[op |-> c.op, key |-> c.key] :
        c \in {x \in Range(Template_push(files, remoteStore, force, sync_deletions, dry_run,
                                          lorder, NoFail, fresh, file_path_ok).calls) :
                  x.op # "list"}}

(* ------------------------------------------------------------------ *)
(* dashboards.py: DashboardSyncer, and the View model of models.py     *)
(* ------------------------------------------------------------------ *)

\* The largest number of views of a dashboard of an initial state.
MaxViews == 2

META_FILE == "_meta"

\* The url paths of the dashboards beside the default one, whose url path is None.
UrlPaths == {"dashboard-x", "dashboard-new", "my-y"}

\* dir_name_from_url_path(url_path): "lovelace" for None, the url path without its
\* "dashboard-" prefix otherwise.
dir_name_from_url_path ==
    [url_path \in UrlPaths \cup {None} |->
        CASE url_path = None -> "lovelace"
          [] url_path = "dashboard-x" -> "x"
          [] url_path = "dashboard-new" -> "new"
          [] url_path = "my-y" -> "my-y"]

\* The paths of views, in alphabetical order, and f"{i:02d}" for i = 0, 1, 2, ...
ViewPaths == <<"home", "more", "view">>
IndexStr == <<"00", "01", "02", "03">>

\* f"{i:02d}_{view_path}", without ".yaml"; i counts from 0.
view_filename(i, view_path) == IndexStr[i + 1] \o "_" \o view_path

\* All names of view files, as sorted() orders them.
SortedViewFiles ==
    [k \in 1..(Len(IndexStr) * Len(ViewPaths)) |->
        view_filename((k - 1) \div Len(ViewPaths), ViewPaths[((k - 1) % Len(ViewPaths)) + 1])]

\* The directory and the file name of a path "<dir_name>/<file>.yaml".
Dashboard_path ==
    LET dirs == {dir_name_from_url_path[u] : u \in UrlPaths \cup {None}}
        names == Range(SortedViewFiles) \cup {META_FILE}
    IN [p \in {full_id_of(d, f) : d \in dirs, f \in names} |->
           CHOOSE q \in dirs \X names : full_id_of(q[1], q[2]) = p]

\* The dashboard directories of a local store, and the view files of one, sorted.
Dashboard_dirs(files) == {Dashboard_path[p][1] : p \in DOMAIN files}
Dashboard_view_files(files, dir_name) ==
    SelectSeq(SortedViewFiles, LAMBDA f : full_id_of(dir_name, f) \in DOMAIN files)

\* load_yaml(meta_file) or {}
Dashboard_meta(files, dir_name) ==
    IF full_id_of(dir_name, META_FILE) \in DOMAIN files
    THEN files[full_id_of(dir_name, META_FILE)]
    ELSE [title |-> Absent, url_path |-> Absent]

\* The position of a view that has none: the key is missing, or its value is None.
NoPosition == 0

\* view_data.get("position", 999)
DefaultPosition == 999

\* View.normalize(view): None is dropped, cards carries its default [].
View_normalize(view) ==
    [position |-> view.position,
     path |-> IF view.path = None THEN Absent ELSE view.path,
     cards |-> IF view.cards = Absent THEN "[]" ELSE view.cards]

\* {k: v for k, v in view_data.items() if k != "position"}; normalized.pop("position")
View_without_position(view) == [view EXCEPT !.position = NoPosition]

\* DashboardSyncer._normalize_config, and the YAML text dump_yaml makes of it: the
\* views normalized, without position.
Dashboard_normalize_config(config) ==
    [views |-> [i \in DOMAIN config.views |->
                   View_without_position(View_normalize(config.views[i]))]]

\* DashboardSyncer.get_local_entities: one entity per directory, the views in the
\* order of their file names, position kept.
RECURSIVE Dashboard_get_local_entities(_, _, _)
Dashboard_get_local_entities(files, dorder, acc) ==
    IF dorder = <<>> THEN acc
    ELSE LET dir_name == Head(dorder)
             view_files == Dashboard_view_files(files, dir_name)
             entry == [meta |-> Dashboard_meta(files, dir_name),
                       config |-> [views |-> [i \in DOMAIN view_files |->
                                      files[full_id_of(dir_name, view_files[i])]]]]
         IN Dashboard_get_local_entities(files, Tail(dorder), dict_put(acc, dir_name, entry))

\* The views sorted by (position, file name), a missing position counting as 999:
\* insertion of one view file into a sorted list.
RECURSIVE Dashboard_insert_sorted(_, _, _, _)
Dashboard_insert_sorted(sorted, f, files, dir_name) ==
    LET pos(g) == LET v == files[full_id_of(dir_name, g)]
                  IN IF v.position = NoPosition THEN DefaultPosition ELSE v.position
    IN IF sorted = <<>> THEN <<f>>
       ELSE IF pos(f) < pos(Head(sorted)) THEN <<f>> \o sorted
       ELSE <<Head(sorted)>> \o Dashboard_insert_sorted(Tail(sorted), f, files, dir_name)

RECURSIVE Dashboard_sort_views(_, _, _)
Dashboard_sort_views(view_files, files, dir_name) ==
    IF view_files = <<>> THEN <<>>
    ELSE Dashboard_insert_sorted(
             Dashboard_sort_views(SubSeq(view_files, 1, Len(view_files) - 1), files, dir_name),
             view_files[Len(view_files)], files, dir_name)

\* DashboardSyncer._load_dashboard_locally: the views in the order of their
\* position, without position.
Dashboard_load_dashboard_locally(files, dir_name) ==
    LET view_files == Dashboard_sort_views(Dashboard_view_files(files, dir_name),
                                           files, dir_name)
    IN [views |-> [i \in DOMAIN view_files |->
                      View_without_position(files[full_id_of(dir_name, view_files[i])])]]

\* DashboardSyncer.get_remote_entities: the default dashboard first when it has a
\* config, then the listed dashboards whose config can be read, keyed by directory
\* name; the remote store is keyed by url path, None for the default dashboard.
Dashboard_url_order == <<None, "dashboard-x", "dashboard-new", "my-y">>

Dashboard_remote_urls(remoteStore, fail) ==
    SelectSeq(Dashboard_url_order,
              LAMBDA u : /\ u \in DOMAIN remoteStore
                         /\ ~Fails(fail, "read", u)
                         /\ "no_config" \notin DOMAIN remoteStore[u])

RECURSIVE Dashboard_get_remote_entities(_, _, _)
Dashboard_get_remote_entities(urls, remoteStore, acc) ==
    IF urls = <<>> THEN acc
    ELSE LET url_path == Head(urls)
             entry == [meta |-> [title |-> remoteStore[url_path].title,
                                 url_path |-> url_path],
                       config |-> [views |-> remoteStore[url_path].views]]
         IN Dashboard_get_remote_entities(Tail(urls), remoteStore,
                dict_put(acc, dir_name_from_url_path[url_path], entry))

\* The remote call log of get_remote_entities: get_dashboards, the config of the
\* default dashboard, the config of every listed dashboard.
Dashboard_remote_calls(remoteStore, fail) ==
    LET listed == SelectSeq(Dashboard_url_order,
                            LAMBDA u : u \in DOMAIN remoteStore /\ u # None)
    IN <<ListCall, [op |-> "read", key |-> None, ok |-> TRUE]>>
          \o [i \in DOMAIN listed |->
                 [op |-> "read", key |-> listed[i], ok |-> ~Fails(fail, "read", listed[i])]]

\* DashboardSyncer.diff, the url path renames: a directory that is remote too,
\* not the default one, whose local and remote url paths are set and differ.
Dashboard_is_rename(dir_name, localDict, remoteDict) ==
    /\ dir_name \in DOMAIN remoteDict.data
    /\ dir_name # "lovelace"
    /\ localDict.data[dir_name].meta.url_path \notin {Absent, None}
    /\ remoteDict.data[dir_name].meta.url_path \notin {Absent, None}
    /\ localDict.data[dir_name].meta.url_path # remoteDict.data[dir_name].meta.url_path

RECURSIVE Dashboard_diff_renamed(_, _, _)
Dashboard_diff_renamed(keys, localDict, remoteDict) ==
    IF keys = <<>> THEN <<>>
    ELSE LET dir_name == Head(keys)
             rest == Dashboard_diff_renamed(Tail(keys), localDict, remoteDict)
         IN IF Dashboard_is_rename(dir_name, localDict, remoteDict)
            THEN <<DiffItem(dir_name, "renamed", localDict.data[dir_name].meta.url_path)>>
                    \o rest
            ELSE rest

\* DashboardSyncer.diff, the loop over the local entities.
RECURSIVE Dashboard_diff_local(_, _, _, _)
Dashboard_diff_local(keys, localDict, remoteDict, url_path_renames) ==
    IF keys = <<>> THEN <<>>
    ELSE LET dir_name == Head(keys)
             rest == Dashboard_diff_local(Tail(keys), localDict, remoteDict, url_path_renames)
         IN IF dir_name \in url_path_renames THEN rest
            ELSE IF dir_name \notin DOMAIN remoteDict.data
                 THEN <<DiffItem(dir_name, "added", None)>> \o rest
            ELSE IF Dashboard_normalize_config(localDict.data[dir_name].config)
                      # Dashboard_normalize_config(remoteDict.data[dir_name].config)
                 THEN <<DiffItem(dir_name, "modified", None)>> \o rest
            ELSE rest

\* DashboardSyncer.diff, the loop over the remote entities.
RECURSIVE Dashboard_diff_deleted(_, _, _)
Dashboard_diff_deleted(rkeys, localDict, url_path_renames) ==
    IF rkeys = <<>> THEN <<>>
    ELSE LET rest == Dashboard_diff_deleted(Tail(rkeys), localDict, url_path_renames)
         IN IF Head(rkeys) \notin DOMAIN localDict.data /\ Head(rkeys) \notin url_path_renames
            THEN <<DiffItem(Head(rkeys), "deleted", None)>> \o rest
            ELSE rest

\* DashboardSyncer.diff(); dorder is the order iterdir yields the directories in,
\* file_path_ok as in Template_diff.
Dashboard_diff(files, remoteStore, dorder, fail, file_path_ok) ==
    LET st == [RunState(files, remoteStore)
                  EXCEPT !.calls = Dashboard_remote_calls(remoteStore, fail)]
        remoteDict == Dashboard_get_remote_entities(
                          Dashboard_remote_urls(remoteStore, fail), remoteStore, EmptyDict)
        localDict == Dashboard_get_local_entities(files, dorder, EmptyDict)
        renamed == Dashboard_diff_renamed(localDict.keys, localDict, remoteDict)
        url_path_renames == {renamed[i].entity_id : i \in DOMAIN renamed}
        its == renamed
                 \o Dashboard_diff_local(localDict.keys, localDict, remoteDict,
                                         url_path_renames)
                 \o Dashboard_diff_deleted(remoteDict.keys, localDict, url_path_renames)
    IN DiffRun(st, its # <<>> /\ ~file_path_ok, its)

\* _save_dashboard_locally, the loop that unlinks the view files in place.
RECURSIVE Dashboard_clear_views(_, _, _)
Dashboard_clear_views(view_files, dir_name, st) ==
    IF view_files = <<>> THEN st
    ELSE Dashboard_clear_views(Tail(view_files), dir_name,
                               unlink(st, full_id_of(dir_name, Head(view_files))))

\* _save_dashboard_locally, the loop that writes view i to "<i>_<path>.yaml" with
\* its position i + 1, normalized; a view without path is named "view".
RECURSIVE Dashboard_write_views(_, _, _, _)
Dashboard_write_views(views, i, dir_name, st) ==
    IF i >= Len(views) THEN st
    ELSE LET view == views[i + 1]
             view_with_position == [view EXCEPT !.position = i + 1]
             filename == view_filename(i, IF view.path \in {Absent, None} THEN "view"
                                          ELSE view.path)
         IN Dashboard_write_views(views, i + 1, dir_name,
                dump_yaml(st, full_id_of(dir_name, filename),
                          View_normalize(view_with_position)))

\* DashboardSyncer._save_dashboard_locally(dir_name, meta, config): the meta file
\* without its None values, then the view files replaced by those of config.
Dashboard_save_dashboard_locally(st, dir_name, meta, config) ==
    LET meta_data == [title |-> meta.title,
                      url_path |-> IF meta.url_path = None THEN Absent ELSE meta.url_path]
        st1 == dump_yaml(mkdir(st, dir_name), full_id_of(dir_name, META_FILE), meta_data)
        st2 == Dashboard_clear_views(Dashboard_view_files(st1.files, dir_name), dir_name, st1)
    IN Dashboard_write_views(config.views, 0, dir_name, st2)

\* shutil.rmtree(dashboard_dir): every file of the directory is gone.
rmtree(st, dir_name) ==
    [st EXCEPT !.files = [p \in {q \in DOMAIN st.files : Dashboard_path[q][1] # dir_name}
                             |-> st.files[p]],
               !.fops = Append(@, [op |-> "rmtree", file |-> dir_name])]

\* DashboardSyncer.pull, the loop over the remote entities: a local dashboard is
\* loaded from its files as they are now and rewritten when its normalized config
\* differs from the remote one.
RECURSIVE Dashboard_pull_remote_loop(_, _, _, _, _)
Dashboard_pull_remote_loop(rkeys, remoteDict, localDict, dry_run, st) ==
    IF rkeys = <<>> THEN st
    ELSE LET dir_name == Head(rkeys)
             meta == remoteDict.data[dir_name].meta
             config == remoteDict.data[dir_name].config
             save(s) == IF dry_run THEN s
                        ELSE Dashboard_save_dashboard_locally(s, dir_name, meta, config)
             next ==
                 IF dir_name \in DOMAIN localDict.data
                 THEN IF Dashboard_normalize_config(config)
                           # Dashboard_normalize_config(
                                 Dashboard_load_dashboard_locally(st.files, dir_name))
                      THEN Updated(save(st), dir_name)
                      ELSE st
                 ELSE Created(save(st), dir_name)
         IN Dashboard_pull_remote_loop(Tail(rkeys), remoteDict, localDict, dry_run, next)

\* DashboardSyncer.pull, the deletion loop: the directory of a local dashboard
\* that is not remote is removed with all its files.
RECURSIVE Dashboard_pull_delete_loop(_, _, _, _)
Dashboard_pull_delete_loop(keys, remoteDict, dry_run, st) ==
    IF keys = <<>> THEN st
    ELSE LET dir_name == Head(keys)
             next == IF dir_name \notin DOMAIN remoteDict.data
                          /\ dir_name \in Dashboard_dirs(st.files)
                     THEN Deleted(IF dry_run THEN st ELSE rmtree(st, dir_name), dir_name)
                     ELSE st
         IN Dashboard_pull_delete_loop(Tail(keys), remoteDict, dry_run, next)

\* DashboardSyncer.pull(sync_deletions, dry_run)
Dashboard_pull(files, remoteStore, sync_deletions, dry_run, dorder, fail) ==
    LET st0 == [(IF dry_run THEN RunState(files, remoteStore)
                 ELSE mkdir(RunState(files, remoteStore), ""))
                   EXCEPT !.calls = Dashboard_remote_calls(remoteStore, fail)]
        remoteDict == Dashboard_get_remote_entities(
                          Dashboard_remote_urls(remoteStore, fail), remoteStore, EmptyDict)
        localDict == Dashboard_get_local_entities(files, dorder, EmptyDict)
        st1 == Dashboard_pull_remote_loop(remoteDict.keys, remoteDict, localDict, dry_run, st0)
    IN IF sync_deletions
       THEN Dashboard_pull_delete_loop(localDict.keys, remoteDict, dry_run, st1)
       ELSE st1

\* url_path_from_dir_name(dir_name, stored_url_path)
url_path_from_dir_name(dir_name, stored_url_path) ==
    IF dir_name = "lovelace" THEN None
    ELSE IF stored_url_path \notin {Absent, None} THEN stored_url_path
    ELSE "dashboard-" \o dir_name

\* meta.get("title", dir_name)
Dashboard_title(meta, dir_name) == IF meta.title = Absent THEN dir_name ELSE meta.title

\* client.create_dashboard(url_path, title, ...): a dashboard that has no config
\* yet.
Dashboard_create(st, url_path, title) ==
    remote_write(st, "create", url_path,
                 [title |-> title, views |-> <<>>, no_config |-> TRUE])

\* client.save_dashboard_config(config, url_path): the dashboard holds the config
\* afterwards; the default dashboard, whose url path is None, needs no entry.
Dashboard_save_config(st, url_path, config) ==
    remote_write(st, "save", url_path,
                 [title |-> IF url_path \in DOMAIN st.remote THEN st.remote[url_path].title
                            ELSE "Home",
                  views |-> config.views])

\* DashboardSyncer.push, one url path rename: the dashboard is created under the
\* new url path, the local config saved to it, the old dashboard deleted.
Dashboard_push_rename(dir_name, new_url_path, localDict, remoteDict, dry_run, fail, st) ==
    LET old_url_path == remoteDict.data[dir_name].meta.url_path
        meta == localDict.data[dir_name].meta
        config == localDict.data[dir_name].config
        st1 == Dashboard_create(st, new_url_path, Dashboard_title(meta, dir_name))
        st2 == Dashboard_save_config(st1, new_url_path, config)
    IN IF dry_run THEN Renamed(st, old_url_path, new_url_path)
       ELSE IF Fails(fail, "create", new_url_path)
            THEN Errored(failed_call(st, "create", new_url_path), dir_name,
                         "create_dashboard")
       ELSE IF Fails(fail, "save", new_url_path)
            THEN Errored(failed_call(st1, "save", new_url_path), dir_name,
                         "save_dashboard_config")
       ELSE IF Fails(fail, "delete", old_url_path)
            THEN Errored(failed_call(st2, "delete", old_url_path), dir_name,
                         "delete_dashboard")
       ELSE Renamed(delete_remote(st2, old_url_path), old_url_path, new_url_path)

\* DashboardSyncer.push, the loop over the renamed items of the diff.
RECURSIVE Dashboard_push_renames(_, _, _, _, _, _)
Dashboard_push_renames(diff_items, localDict, remoteDict, dry_run, fail, st) ==
    IF diff_items = <<>> THEN st
    ELSE LET item == Head(diff_items)
             next == IF item.status # "renamed" \/ item.new_id = None THEN st
                     ELSE Dashboard_push_rename(item.entity_id, item.new_id, localDict,
                                                remoteDict, dry_run, fail, st)
         IN Dashboard_push_renames(Tail(diff_items), localDict, remoteDict, dry_run, fail,
                                   next)

\* DashboardSyncer.push: the dashboards to create or update.
Dashboard_items_to_process(force, localDict, diff_items, processed_dirs) ==
    IF force THEN SelectSeq(localDict.keys, LAMBDA k : k \notin processed_dirs)
    ELSE SelectSeq(ids_with_status(diff_items, {"added", "modified"}),
                   LAMBDA k : k \in DOMAIN localDict.data)

\* DashboardSyncer.push, the loop over the items to process: the config of a
\* dashboard of the remote dict is saved; the default dashboard is created by
\* saving its config, another one by create_dashboard and then the save.  A save
\* to a url path no dashboard has raises.
RECURSIVE Dashboard_push_save_loop(_, _, _, _, _, _)
Dashboard_push_save_loop(keys, localDict, remoteDict, dry_run, fail, st) ==
    IF keys = <<>> THEN st
    ELSE LET dir_name == Head(keys)
             config == localDict.data[dir_name].config
             meta == localDict.data[dir_name].meta
             url_path == url_path_from_dir_name(dir_name, meta.url_path)
             is_update == dir_name \in DOMAIN remoteDict.data
             record(s) == IF is_update THEN Updated(s, dir_name) ELSE Created(s, dir_name)
             st1 == IF is_update \/ dir_name = "lovelace" THEN st
                    ELSE Dashboard_create(st, url_path, Dashboard_title(meta, dir_name))
             next ==
                 IF dry_run THEN record(st)
                 ELSE IF ~is_update /\ dir_name # "lovelace" /\ Fails(fail, "create", url_path)
                      THEN Errored(failed_call(st, "create", url_path), dir_name,
                                   "create_dashboard")
                 ELSE IF Fails(fail, "save", url_path)
                           \/ (url_path # None /\ url_path \notin DOMAIN st1.remote)
                      THEN Errored(failed_call(st1, "save", url_path), dir_name,
                                   "save_dashboard_config")
                 ELSE record(Dashboard_save_config(st1, url_path, config))
         IN Dashboard_push_save_loop(Tail(keys), localDict, remoteDict, dry_run, fail, next)

\* DashboardSyncer.push: the dashboards to delete.
Dashboard_items_to_delete(force, localDict, remoteDict, diff_items, processed_dirs) ==
    IF force THEN SelectSeq(remoteDict.keys,
                            LAMBDA k : k \notin DOMAIN localDict.data /\ k \notin processed_dirs)
    ELSE ids_with_status(diff_items, {"deleted"})

\* DashboardSyncer.push, the deletion loop.
RECURSIVE Dashboard_push_delete_loop(_, _, _, _, _)
Dashboard_push_delete_loop(keys, remoteDict, dry_run, fail, st) ==
    IF keys = <<>> THEN st
    ELSE LET dir_name == Head(keys)
             url_path == remoteDict.data[dir_name].meta.url_path
             next == IF dry_run THEN Deleted(st, dir_name)
                     ELSE IF Fails(fail, "delete", url_path)
                          THEN Errored(failed_call(st, "delete", url_path), dir_name,
                                       "delete_dashboard")
                     ELSE Deleted(delete_remote(st, url_path), dir_name)
         IN Dashboard_push_delete_loop(Tail(keys), remoteDict, dry_run, fail, next)

\* _rename_view_files, the name a view file is expected to have at index i.
Dashboard_expected_name(i, view) ==
    view_filename(i, IF view.path \in {Absent, None} THEN "view" ELSE view.path)

\* _rename_view_files, the first pass: a file to rename is moved to its temporary
\* name; held keeps what the temporary files hold.
RECURSIVE Dashboard_views_to_temp(_, _, _)
Dashboard_views_to_temp(moves, dir_name, st) ==
    IF moves = <<>> THEN st
    ELSE LET old == full_id_of(dir_name, Head(moves).old)
         IN Dashboard_views_to_temp(Tail(moves), dir_name,
                [st EXCEPT !.files = [g \in DOMAIN st.files \ {old} |-> st.files[g]],
                           !.fops = Append(@, [op |-> "rename", file |-> old,
                                               to |-> old \o ".tmp", at |-> Tick(st)])])

\* _rename_view_files, the second pass: the view is written under its new name
\* with the position of its index, normalized, and the temporary file unlinked.
RECURSIVE Dashboard_views_from_temp(_, _, _, _)
Dashboard_views_from_temp(moves, dir_name, held, st) ==
    IF moves = <<>> THEN st
    ELSE LET move == Head(moves)
             old == full_id_of(dir_name, move.old)
             view_data == [held[old] EXCEPT !.position = move.index + 1]
             st1 == dump_yaml(st, full_id_of(dir_name, move.new), View_normalize(view_data))
             st2 == [st1 EXCEPT !.fops = Append(@, [op |-> "unlink", file |-> old \o ".tmp",
                                                    at |-> Tick(st1)])]
         IN Dashboard_views_from_temp(Tail(moves), dir_name, held, st2)

\* DashboardSyncer._rename_view_files(local): in every local dashboard directory
\* the view files, sorted by position and file name, are renamed to carry their
\* index and path.
RECURSIVE Dashboard_rename_view_files(_, _)
Dashboard_rename_view_files(dirs, st) ==
    IF dirs = <<>> THEN st
    ELSE LET dir_name == Head(dirs)
             sorted == Dashboard_sort_views(Dashboard_view_files(st.files, dir_name),
                                            st.files, dir_name)
             expected(i) == Dashboard_expected_name(
                                i - 1, st.files[full_id_of(dir_name, sorted[i])])
             moved == SelectSeq([i \in DOMAIN sorted |->
                                    [old |-> sorted[i], new |-> expected(i), index |-> i - 1]],
                                LAMBDA m : m.old # m.new)
             st1 == Dashboard_views_to_temp(moved, dir_name, st)
         IN Dashboard_rename_view_files(Tail(dirs),
                Dashboard_views_from_temp(moved, dir_name, st.files, st1))

\* DashboardSyncer.push: the directories whose url path rename the rename loop
\* handles.
Dashboard_processed_dirs(diff_items) ==
    {diff_items[i].entity_id :
        i \in {j \in DOMAIN diff_items : diff_items[j].status = "renamed"
                                          /\ diff_items[j].new_id # None}}

\* DashboardSyncer.push, the deletions, made when sync_deletions is set.
Dashboard_push_deletions(force, sync_deletions, dry_run, fail, localDict, remoteDict, diff_items, st) ==
    IF sync_deletions
    THEN Dashboard_push_delete_loop(
             Dashboard_items_to_delete(force, localDict, remoteDict, diff_items,
                                       Dashboard_processed_dirs(diff_items)),
             remoteDict, dry_run, fail, InPhase(st, "deletions"))
    ELSE st

\* DashboardSyncer.push, the closing call of _rename_view_files(local), skipped in
\* a dry run.
Dashboard_push_view_files(dry_run, localDict, st) ==
    IF dry_run THEN st
    ELSE Dashboard_rename_view_files(localDict.keys, InPhase(st, "view files"))

\* DashboardSyncer.push after its diff d: the renames, the saves, the deletions,
\* the view files; a diff that raises ends the push.
Dashboard_push_phases(d, localDict, remoteDict, force, sync_deletions, dry_run, fail) ==
    IF d.raised THEN [d.st EXCEPT !.raised = TRUE]
    ELSE Dashboard_push_view_files(dry_run, localDict,
             Dashboard_push_deletions(force, sync_deletions, dry_run, fail, localDict,
                 remoteDict, d.items,
                 Dashboard_push_save_loop(
                     Dashboard_items_to_process(force, localDict, d.items,
                                                Dashboard_processed_dirs(d.items)),
                     localDict, remoteDict, dry_run, fail,
                     InPhase(Dashboard_push_renames(d.items, localDict, remoteDict, dry_run,
                                                    fail, InPhase(d.st, "renames")),
                             "saves"))))

\* DashboardSyncer.push(force, sync_deletions, dry_run): the remote entities are
\* fetched once and handed to diff.
Dashboard_push(files, remoteStore, force, sync_deletions, dry_run, dorder, fail, file_path_ok) ==
    Dashboard_push_phases(
        Dashboard_diff(files, remoteStore, dorder, NoFail, file_path_ok),
        Dashboard_get_local_entities(files, dorder, EmptyDict),
        Dashboard_get_remote_entities(Dashboard_remote_urls(remoteStore, NoFail), remoteStore,
                                      EmptyDict),
        force, sync_deletions, dry_run, fail)

\* The calls a dashboard push can be made to fail in: those it issues when
\* nothing fails.
Dashboard_FailChoices(files, remoteStore, force, sync_deletions, dry_run, dorder, file_path_ok) ==
    {NoFail} \cup
    {[op |-> c.op, key |-> c.key] :
        c \in {x \in Range(Dashboard_push(files, remoteStore, force, sync_deletions, dry_run,
                                           dorder, NoFail, file_path_ok).calls) :
                  x.op \notin {"list", "read"}}}

(* ------------------------------------------------------------------ *)
(* State                                                              *)
(* ------------------------------------------------------------------ *)

VARIABLES
    kind,       \* the syncer at work: simple, helper, config_entry, template, dashboard
    local,      \* the local store: file path -> file content
    remote,     \* the remote store: entity key -> record
    op,         \* the last operation and its flags
    failure,    \* the remote call that was made to fail in the last operation
    glob,       \* the order in which the last operation enumerated the files
    items,      \* the list the last diff returned
    result,     \* the SyncResult the last pull or push returned
    raised,     \* whether the last operation raised instead of returning
    calls,      \* the remote calls the last operation issued, in order
    fops,       \* the file operations the last operation issued, in order
    nops,       \* the number of pull and push calls so far
    normalized  \* what successive calls of a model's normalize returned

vars ==
    <<kind, local, remote, op, failure, glob, items, result, raised, calls, fops, nops, normalized>>

\* Every store of at most n entries over the keys S with values in D.
Stores(S, n, D) ==
    UNION {[F -> D] : F \in {X \in SUBSET S : Cardinality(X) <= n}}

\* The initial local stores: at most MaxFiles files.  The ids are interchangeable,
\* so the files are named by the first ids.
InitLocal ==
    UNION {[{IdOrder[i] : i \in 1..n} -> InitLocalData] : n \in 0..MaxFiles}

Op(name, force, sync_deletions, dry_run) ==
    [name |-> name, force |-> force, sync_deletions |-> sync_deletions,
     dry_run |-> dry_run]

\* The file contents and the remote records of the helper stores of an initial
\* state: a file with or without an id and with a null icon, a remote helper with
\* its id and no icon.
InitHelperData == [id : HelperIds \cup {None}, name : {"Foo"}, icon : {None}]
InitHelperNames == {"Foo", "Bar"}

\* The initial helper files: at most MaxFiles, named by the first ids, each in the
\* directory of one helper type.
InitHelperLocal ==
    UNION {UNION {[{full_id_of(ts[i], IdOrder[i]) : i \in 1..n} -> InitHelperData] :
                     ts \in [1..n -> StoreHelperTypes]} : n \in 0..MaxFiles}

\* The initial remote helpers: at most MaxRemote, keyed by their full id.
InitHelperRemote ==
    UNION {{[k \in K |-> [id |-> split_last(k), name |-> nm[k], icon |-> Absent]] :
               nm \in [K -> InitHelperNames]} :
           K \in {X \in SUBSET {full_id_of(t, i) : t \in StoreHelperTypes, i \in HelperIds} :
                      Cardinality(X) <= MaxRemote}}

\* No operation has run yet.
InitRun ==
    /\ op = Op("init", FALSE, FALSE, FALSE)
    /\ failure = NoFail
    /\ glob = <<>>
    /\ items = <<>>
    /\ result = SyncResult
    /\ raised = FALSE
    /\ calls = <<>>
    /\ fops = <<>>
    /\ nops = 0
    /\ normalized = <<>>

\* A simple syncer (automations, scripts, scenes) over its stores.
Init ==
    /\ kind = "simple"
    /\ local \in InitLocal
    /\ remote \in Stores(Ids, MaxRemote, InitRemoteData)
    /\ InitRun

\* The helper syncer over its stores.
HelperInit ==
    /\ kind = "helper"
    /\ local \in InitHelperLocal
    /\ remote \in InitHelperRemote
    /\ InitRun

\* The config entry syncer of one domain over its stores: at most MaxFiles files,
\* with or without entry_id, at most MaxRemote entries.
ConfigEntryStems == <<"foo", "a", "foo-b">>
InitConfigEntryData ==
    [entry_id : {Absent, "a", "b"}, name : {"Foo"}, after_time : {"07:00", None}]

ConfigEntryInit ==
    /\ kind = "config_entry"
    /\ local \in UNION {[{ConfigEntryStems[i] : i \in 1..n} -> InitConfigEntryData] :
                           n \in 0..MaxFiles}
    /\ remote \in UNION {{[k \in K |-> [entry_id |-> k, name |-> nm[k],
                                       after_time |-> "07:00"]] :
                              nm \in [K -> {"", "Foo", "foo"}]} :
                          K \in {X \in SUBSET {"a", "b"} : Cardinality(X) <= MaxRemote}}
    /\ InitRun

\* The template syncer over its stores: at most MaxFiles files, each in a subtype
\* directory, at most MaxRemote template helpers with their registry entity id.
TemplateStems0 == <<"foo", "a", "bar">>
InitTemplateData ==
    [entry_id : {Absent, "a", "b"}, name : {"Foo"}, step_id : {Absent}, id : {"sensor.x"}]

TemplateInit ==
    /\ kind = "template"
    /\ local \in UNION {UNION {[{full_id_of(ts[i], TemplateStems0[i]) : i \in 1..n}
                                   -> InitTemplateData] :
                                  ts \in [1..n -> TemplateSubtypes]} : n \in 0..MaxFiles}
    /\ remote \in UNION {{[k \in K |-> [entry_id |-> Template_path[k][2], name |-> nm[k],
                                       step_id |-> Template_path[k][1], id |-> "sensor.x"]] :
                              nm \in [K -> {"Foo", "Bar"}]} :
                          K \in {X \in SUBSET {full_id_of(t, i) : t \in TemplateSubtypes,
                                                                  i \in {"a", "b"}} :
                                    Cardinality(X) <= MaxRemote}}
    /\ InitRun

\* The view lists of the dashboards of an initial state: at most MaxViews views
\* with distinct paths, as the remote API holds them.
InitViews ==
    {vs \in UNION {[1..n -> {"home", "more"}] : n \in 0..MaxViews} :
        \A i, j \in DOMAIN vs : i # j => vs[i] # vs[j]}
RemoteView(view_path) == [position |-> NoPosition, path |-> view_path, cards |-> Absent]
RemoteDashboard(vs) == [title |-> "T", views |-> [i \in DOMAIN vs |-> RemoteView(vs[i])]]

\* The view lists of the default dashboard of an initial state: "home" comes first.
DefaultViews == {vs \in InitViews : vs # <<>> /\ vs[1] = "home"}

\* The files of a dashboard directory that holds the views vs in this order, each
\* with its position, and a meta file with the url path.
InitDashboardFiles(dir_name, url_path, vs) ==
    [p \in {full_id_of(dir_name, META_FILE)}
             \cup {full_id_of(dir_name, view_filename(i - 1, vs[i])) : i \in DOMAIN vs} |->
        IF p = full_id_of(dir_name, META_FILE)
        THEN [title |-> "T", url_path |-> url_path]
        ELSE LET i == CHOOSE j \in DOMAIN vs :
                          p = full_id_of(dir_name, view_filename(j - 1, vs[j]))
             IN [position |-> i, path |-> vs[i], cards |-> Absent]]

\* The union of two stores of disjoint keys.
Merge(f, g) == [k \in DOMAIN f \cup DOMAIN g |-> IF k \in DOMAIN f THEN f[k] ELSE g[k]]

\* The dashboard syncer over its stores: the default dashboard and the dashboard
\* "dashboard-x", each present or not on either side.
DashboardInit ==
    /\ kind = "dashboard"
    /\ \E l1 \in {<<>>} \cup {InitDashboardFiles("lovelace", Absent, vs) : vs \in DefaultViews},
          l2 \in {<<>>} \cup {InitDashboardFiles("x", u, vs) :
                                 u \in {"dashboard-x", "dashboard-new"}, vs \in InitViews} :
          local = Merge(l1, l2)
    /\ \E r1 \in {<<>>} \cup {[u \in {None} |-> RemoteDashboard(vs)] : vs \in DefaultViews},
          r2 \in {<<>>} \cup {[u \in {"dashboard-x"} |-> RemoteDashboard(vs)] :
                                 vs \in InitViews} :
          remote = Merge(r1, r2)
    /\ InitRun

\* A call of diff().
Diff ==
    /\ kind = "simple"
    /\ \E lorder \in Perms(DOMAIN local) :
        LET d == diff(local, remote, lorder)
        IN /\ op' = Op("diff", FALSE, FALSE, FALSE)
           /\ failure' = NoFail
           /\ glob' = lorder
           /\ items' = d.items
           /\ raised' = d.raised
           /\ result' = SyncResult
           /\ calls' = d.st.calls
           /\ fops' = d.st.fops
           /\ local' = d.st.files
           /\ remote' = d.st.remote
           /\ UNCHANGED <<kind, nops, normalized>>

\* A call of pull(sync_deletions).
Pull ==
    /\ kind = "simple"
    /\ nops < MaxOps
    /\ nops' = nops + 1
    /\ UNCHANGED <<kind, normalized>>
    /\ \E sync_deletions \in BOOLEAN, lorder \in Perms(DOMAIN local) :
        LET st == pull(local, remote, sync_deletions, lorder)
        IN /\ op' = Op("pull", FALSE, sync_deletions, FALSE)
           /\ failure' = NoFail
           /\ glob' = lorder
           /\ items' = <<>>
           /\ raised' = st.raised
           /\ result' = st.result
           /\ calls' = st.calls
           /\ fops' = st.fops
           /\ local' = st.files
           /\ remote' = st.remote

\* A call of push(force, sync_deletions, dry_run), possibly with one failing call.
Push ==
    /\ kind = "simple"
    /\ nops < MaxOps
    /\ nops' = nops + 1
    /\ UNCHANGED <<kind, normalized>>
    /\ \E force \in BOOLEAN, sync_deletions \in BOOLEAN, dry_run \in BOOLEAN,
       lorder \in Perms(DOMAIN local) :
        \E fail \in FailChoices(local, remote, force, sync_deletions, dry_run, lorder) :
            LET st == push(local, remote, force, sync_deletions, dry_run, lorder, fail)
            IN /\ op' = Op("push", force, sync_deletions, dry_run)
               /\ failure' = fail
               /\ glob' = lorder
               /\ items' = <<>>
               /\ raised' = st.raised
               /\ result' = st.result
               /\ calls' = st.calls
               /\ fops' = st.fops
               /\ local' = st.files
               /\ remote' = st.remote

\* A call of HelperSyncer.diff().  A diff starts from the stores alone, so a diff
\* right after a diff is only taken for the simple syncer.
HelperDiff ==
    /\ kind = "helper"
    /\ op.name # "diff"
    /\ \E lorder \in Perms(DOMAIN local) :
        LET d == Helper_diff(local, remote, lorder)
        IN /\ op' = Op("diff", FALSE, FALSE, FALSE)
           /\ failure' = NoFail
           /\ glob' = lorder
           /\ items' = d.items
           /\ raised' = d.raised
           /\ result' = SyncResult
           /\ calls' = d.st.calls
           /\ fops' = d.st.fops
           /\ local' = d.st.files
           /\ remote' = d.st.remote
           /\ UNCHANGED <<kind, nops, normalized>>

\* A call of HelperSyncer.pull(sync_deletions).
HelperPull ==
    /\ kind = "helper"
    /\ nops < MaxOps
    /\ nops' = nops + 1
    /\ UNCHANGED <<kind, normalized>>
    /\ \E sync_deletions \in BOOLEAN, lorder \in Perms(DOMAIN local) :
        LET st == Helper_pull(local, remote, sync_deletions, lorder)
        IN /\ op' = Op("pull", FALSE, sync_deletions, FALSE)
           /\ failure' = NoFail
           /\ glob' = lorder
           /\ items' = <<>>
           /\ raised' = st.raised
           /\ result' = st.result
           /\ calls' = st.calls
           /\ fops' = st.fops
           /\ local' = st.files
           /\ remote' = st.remote

\* A call of HelperSyncer.push(force, sync_deletions, dry_run) in which at most
\* one remote call fails.
HelperPush ==
    /\ kind = "helper"
    /\ nops < MaxOps
    /\ nops' = nops + 1
    /\ UNCHANGED <<kind, normalized>>
    /\ \E force \in BOOLEAN, sync_deletions \in BOOLEAN, dry_run \in BOOLEAN,
          lorder \in Perms(DOMAIN local) :
        \E fail \in Helper_FailChoices(local, remote, force, sync_deletions, dry_run, lorder) :
            LET st == Helper_push(local, remote, force, sync_deletions, dry_run, lorder, fail)
            IN /\ op' = Op("push", force, sync_deletions, dry_run)
               /\ failure' = fail
               /\ glob' = lorder
               /\ items' = <<>>
               /\ raised' = st.raised
               /\ result' = st.result
               /\ calls' = st.calls
               /\ fops' = st.fops
               /\ local' = st.files
               /\ remote' = st.remote

\* The variables after a diff and after a pull.
DiffRan(lorder, fail, d) ==
    /\ op' = Op("diff", FALSE, FALSE, FALSE)
    /\ failure' = fail
    /\ glob' = lorder
    /\ items' = d.items
    /\ raised' = d.raised
    /\ result' = SyncResult
    /\ calls' = d.st.calls
    /\ fops' = d.st.fops
    /\ local' = d.st.files
    /\ remote' = d.st.remote
    /\ UNCHANGED <<kind, nops, normalized>>

PullRan(sync_deletions, dry_run, lorder, fail, st) ==
    /\ op' = Op("pull", FALSE, sync_deletions, dry_run)
    /\ failure' = fail
    /\ glob' = lorder
    /\ items' = <<>>
    /\ raised' = st.raised
    /\ result' = st.result
    /\ calls' = st.calls
    /\ fops' = st.fops
    /\ local' = st.files
    /\ remote' = st.remote
    /\ nops' = nops + 1
    /\ UNCHANGED <<kind, normalized>>

\* The reads of configs a get_remote_entities can be made to fail in.
ReadFailChoices(keys) == {NoFail} \cup {[op |-> "read", key |-> k] : k \in keys}

\* A call of ConfigEntrySyncer.diff().
ConfigEntryDiff ==
    /\ kind = "config_entry"
    /\ op.name # "diff"
    /\ \E lorder \in Perms(DOMAIN local), fail \in ReadFailChoices(DOMAIN remote) :
          DiffRan(lorder, fail, ConfigEntry_diff(local, remote, lorder, fail))

\* A call of ConfigEntrySyncer.pull(sync_deletions).
ConfigEntryPull ==
    /\ kind = "config_entry"
    /\ nops < MaxOps
    /\ \E sync_deletions \in BOOLEAN, lorder \in Perms(DOMAIN local),
          fail \in ReadFailChoices(DOMAIN remote) :
          PullRan(sync_deletions, FALSE, lorder, fail,
                  ConfigEntry_pull(local, remote, sync_deletions, lorder, fail))

\* A call of TemplateSyncer.diff().
TemplateDiff ==
    /\ kind = "template"
    /\ op.name # "diff"
    /\ \E lorder \in Perms(DOMAIN local), file_path_ok \in BOOLEAN :
          DiffRan(lorder, NoFail, Template_diff(local, remote, lorder, file_path_ok))

\* A call of TemplateSyncer.pull(sync_deletions, dry_run).
TemplatePull ==
    /\ kind = "template"
    /\ nops < MaxOps
    /\ \E sync_deletions \in BOOLEAN, dry_run \in BOOLEAN, lorder \in Perms(DOMAIN local) :
          PullRan(sync_deletions, dry_run, lorder, NoFail,
                  Template_pull(local, remote, sync_deletions, dry_run, lorder))

\* The orders a create call draws the ids of new entries in.
FreshOrders == {IdOrder, [i \in DOMAIN IdOrder |-> IdOrder[Len(IdOrder) + 1 - i]]}

\* The variables after a push.
PushRan(force, sync_deletions, dry_run, lorder, fail, st) ==
    /\ op' = Op("push", force, sync_deletions, dry_run)
    /\ failure' = fail
    /\ glob' = lorder
    /\ items' = <<>>
    /\ raised' = st.raised
    /\ result' = st.result
    /\ calls' = st.calls
    /\ fops' = st.fops
    /\ local' = st.files
    /\ remote' = st.remote
    /\ nops' = nops + 1
    /\ UNCHANGED <<kind, normalized>>

\* A call of ConfigEntrySyncer.push(force, sync_deletions, dry_run) in which at
\* most one remote write fails.
ConfigEntryPush ==
    /\ kind = "config_entry"
    /\ nops < MaxOps
    /\ \E force \in BOOLEAN, sync_deletions \in BOOLEAN, dry_run \in BOOLEAN,
          lorder \in Perms(DOMAIN local), fresh \in FreshOrders :
        \E fail \in ConfigEntry_FailChoices(local, remote, force, sync_deletions, dry_run,
                                            lorder, fresh) :
            PushRan(force, sync_deletions, dry_run, lorder, fail,
                    ConfigEntry_push(local, remote, force, sync_deletions, dry_run, lorder,
                                     fail, fresh))

\* A call of TemplateSyncer.push(force, sync_deletions, dry_run) in which at most
\* one remote write fails.
TemplatePush ==
    /\ kind = "template"
    /\ nops < MaxOps
    /\ \E force \in BOOLEAN, sync_deletions \in BOOLEAN, dry_run \in BOOLEAN,
          lorder \in Perms(DOMAIN local), fresh \in FreshOrders, file_path_ok \in BOOLEAN :
        \E fail \in Template_FailChoices(local, remote, force, sync_deletions, dry_run,
                                         lorder, fresh, file_path_ok) :
            PushRan(force, sync_deletions, dry_run, lorder, fail,
                    Template_push(local, remote, force, sync_deletions, dry_run, lorder,
                                  fail, fresh, file_path_ok))

\* A call of DashboardSyncer.push(force, sync_deletions, dry_run) in which at most
\* one remote write fails.
DashboardPush ==
    /\ kind = "dashboard"
    /\ nops < MaxOps
    /\ \E force \in BOOLEAN, sync_deletions \in BOOLEAN, dry_run \in BOOLEAN,
          dorder \in Perms(Dashboard_dirs(local)), file_path_ok \in BOOLEAN :
        \E fail \in Dashboard_FailChoices(local, remote, force, sync_deletions, dry_run,
                                          dorder, file_path_ok) :
            PushRan(force, sync_deletions, dry_run, dorder, fail,
                    Dashboard_push(local, remote, force, sync_deletions, dry_run, dorder,
                                   fail, file_path_ok))

\* A call of DashboardSyncer.diff().
DashboardDiff ==
    /\ kind = "dashboard"
    /\ op.name # "diff"
    /\ \E dorder \in Perms(Dashboard_dirs(local)),
          fail \in ReadFailChoices(DOMAIN remote \ {None}), file_path_ok \in BOOLEAN :
          DiffRan(dorder, fail, Dashboard_diff(local, remote, dorder, fail, file_path_ok))

\* A call of DashboardSyncer.pull(sync_deletions, dry_run).
DashboardPull ==
    /\ kind = "dashboard"
    /\ nops < MaxOps
    /\ \E sync_deletions \in BOOLEAN, dry_run \in BOOLEAN,
          dorder \in Perms(Dashboard_dirs(local)),
          fail \in ReadFailChoices(DOMAIN remote \ {None}) :
          PullRan(sync_deletions, dry_run, dorder, fail,
                  Dashboard_pull(local, remote, sync_deletions, dry_run, dorder, fail))

\* The simple syncer: diff, pull and push in any order.
Next == Diff \/ Pull \/ Push

Spec == Init /\ [][Next]_vars

\* The helper syncer: diff and pull.
HelperNext == HelperDiff \/ HelperPull

HelperSpec == HelperInit /\ [][HelperNext]_vars

\* Every syncer: diff and pull.
SyncersInit == Init \/ HelperInit \/ ConfigEntryInit \/ TemplateInit \/ DashboardInit

SyncersNext ==
    \/ Diff \/ Pull
    \/ HelperDiff \/ HelperPull
    \/ ConfigEntryDiff \/ ConfigEntryPull
    \/ TemplateDiff \/ TemplatePull
    \/ DashboardDiff \/ DashboardPull

SyncersSpec == SyncersInit /\ [][SyncersNext]_vars

\* The five syncers (simple, helper, config entry, template, dashboard), each
\* over its stores, every step a push.  The stores are those of the other
\* specifications narrowed to keep the pushes of all five within reach: the files
\* of the simple syncer all carry an alias, the helpers are of one helper type,
\* the templates of one subtype, the default dashboard of one view.
PushersInit ==
    \/ Init /\ \A f \in DOMAIN local : local[f].alias = "Foo"
    \/ HelperInit /\ \A k \in DOMAIN local \cup DOMAIN remote : split_first(k) = "input_boolean"
    \/ ConfigEntryInit
    \/ TemplateInit /\ \A k \in DOMAIN local \cup DOMAIN remote : Template_path[k][1] = "sensor"
    \/ /\ DashboardInit
       /\ full_id_of("lovelace", view_filename(1, "more")) \notin DOMAIN local
       /\ None \in DOMAIN remote => Len(remote[None].views) = 1

PushersNext == Push \/ HelperPush \/ ConfigEntryPush \/ TemplatePush \/ DashboardPush

PushersSpec == PushersInit /\ [][PushersNext]_vars

(* ------------------------------------------------------------------ *)
(* Properties                                                         *)
(* ------------------------------------------------------------------ *)

\* The local dict the last operation read, and its pending renames.
LastLocalDict == get_local_entities(local, glob, EmptyDict)
LastRenames == detect_renames(local, glob, DOMAIN remote)

\* The entity ids of the given items that have one of the statuses.
IdsWithStatus(its, statuses) ==
    {its[i].entity_id : i \in {j \in DOMAIN its : its[j].status \in statuses}}

\* A diff has returned its list.
DiffReturned == kind = "simple" /\ op.name = "diff" /\ ~raised

\* The items of a list as a set of (status, entity_id, new_id).
ItemSet(its) == Range(its)

\* C1: after a completed pull(sync_deletions=true), a diff of the stores as the
\* pull left them that returns holds no added, modified or deleted item, whatever
\* the initial stores were.
C1_PullConvergence ==
    [][(kind = "simple" /\ op'.name = "pull" /\ op'.sync_deletions /\ ~raised')
        => \A lorder \in Perms(DOMAIN local') :
              LET d == diff(local', remote', lorder)
              IN ~d.raised
                    => IdsWithStatus(d.items, {"added", "modified", "deleted"}) = {}]_vars

\* No file of the store is named differently from the id in its content.
NoRenamePending(files) == \A f \in DOMAIN files : content_id(f, files[f]) = f

\* C2: after a push(sync_deletions=true) that is no dry run, in which no remote
\* call failed and before which no file was named differently from its content
\* id, a diff that returns holds no item, with and without force.
C2_PushConvergence ==
    [][(/\ kind = "simple" /\ op'.name = "push" /\ op'.sync_deletions /\ ~op'.dry_run
        /\ failure' = NoFail /\ ~raised'
        /\ NoRenamePending(local))
        => \A lorder \in Perms(DOMAIN local') :
              LET d == diff(local', remote', lorder)
              IN ~d.raised => d.items = <<>>]_vars

\* C2 witness: such a push has created, updated and deleted remote entities.
C2_Witness ==
    /\ kind = "simple" /\ op.name = "push" /\ op.sync_deletions /\ ~op.dry_run /\ failure = NoFail
    /\ ~raised /\ NoRenamePending(local)
    /\ result.created # <<>> /\ result.deleted # <<>>
    /\ \E lorder \in Perms(DOMAIN local) : ~diff(local, remote, lorder).raised

\* C3 as stated: every key that only the local store holds is an added item,
\* every key that only the remote store holds is a deleted item, and a key whose
\* normalized records agree is in no item.
C3_DiffSoundnessAsStated ==
    DiffReturned =>
        /\ \A k \in DOMAIN LastLocalDict.data \ DOMAIN remote :
              k \in IdsWithStatus(items, {"added"})
        /\ \A k \in DOMAIN remote \ DOMAIN LastLocalDict.data :
              k \in IdsWithStatus(items, {"deleted"})
        /\ \A k \in DOMAIN remote \cap DOMAIN LastLocalDict.data :
              (/\ Validates(clean_config(LastLocalDict.data[k]))
               /\ normalize(clean_config(LastLocalDict.data[k]))
                     = normalize(ensure_id_in_config(k, remote[k])))
                 => \A i \in DOMAIN items :
                       items[i].entity_id # k /\ items[i].new_id # k

\* C3, amended: a local-only key that is not the new key of a pending rename is
\* an added item, a remote-only key that is not the old key of a pending rename
\* is a deleted item, and a key whose normalized records agree is in no added,
\* modified or deleted item.
C3_DiffSoundness ==
    DiffReturned =>
        /\ \A k \in (DOMAIN LastLocalDict.data \ DOMAIN remote) \ RenameNews(LastRenames) :
              k \in IdsWithStatus(items, {"added"})
        /\ \A k \in (DOMAIN remote \ DOMAIN LastLocalDict.data) \ RenameOlds(LastRenames) :
              k \in IdsWithStatus(items, {"deleted"})
        /\ \A k \in DOMAIN remote \cap DOMAIN LastLocalDict.data :
              (/\ Validates(clean_config(LastLocalDict.data[k]))
               /\ normalize(clean_config(LastLocalDict.data[k]))
                     = normalize(ensure_id_in_config(k, remote[k])))
                 => k \notin IdsWithStatus(items, {"added", "modified", "deleted"})

\* C3 witness: a diff over a local-only key, a remote-only key and a key whose
\* records agree only after normalization.
C3_Witness ==
    /\ DiffReturned
    /\ \E k \in (DOMAIN LastLocalDict.data \ DOMAIN remote) \ RenameNews(LastRenames) :
          k \in IdsWithStatus(items, {"added"})
    /\ \E k \in DOMAIN remote \cap DOMAIN LastLocalDict.data :
          /\ Validates(clean_config(LastLocalDict.data[k]))
          /\ clean_config(LastLocalDict.data[k]) # ensure_id_in_config(k, remote[k])
          /\ normalize(clean_config(LastLocalDict.data[k]))
                = normalize(ensure_id_in_config(k, remote[k]))

\* C4: for a file whose filename key f differs from its content id c while f is a
\* remote key, the diff holds exactly one renamed item of f, which names c as the
\* new id, and no added or deleted item of f or of c.
C4_RenameItem ==
    DiffReturned =>
        \A f \in DOMAIN local :
            LET c == content_id(f, local[f])
            IN (c # f /\ f \in DOMAIN remote)
                  => /\ Cardinality({i \in DOMAIN items :
                            items[i].status = "renamed" /\ items[i].entity_id = f}) = 1
                     /\ \A i \in DOMAIN items :
                           (items[i].status = "renamed" /\ items[i].entity_id = f)
                              => items[i].new_id = c
                     /\ {f, c} \cap IdsWithStatus(items, {"added", "deleted"}) = {}

\* C4 witness: a diff over a pending rename whose new id is no remote key.
C4_Witness ==
    /\ DiffReturned
    /\ \E f \in DOMAIN local :
          /\ content_id(f, local[f]) # f
          /\ f \in DOMAIN remote
          /\ content_id(f, local[f]) \notin DOMAIN remote

\* C5: for a helper file whose filename key f differs from its content id c while
\* "<type>/f" is a remote key, the list HelperSyncer.diff returns holds exactly one
\* renamed item of "<type>/f", which names "<type>/c" as the new id, and no added
\* or deleted item of "<type>/f" or of "<type>/c".
C5_HelperRenameItem ==
    (kind = "helper" /\ op.name = "diff" /\ ~raised) =>
        \A p \in DOMAIN local :
            LET f == split_last(p)
                c == content_id(f, local[p])
                old_full_id == full_id_of(split_first(p), f)
                new_full_id == full_id_of(split_first(p), c)
            IN (c # f /\ old_full_id \in DOMAIN remote)
                  => /\ Cardinality({i \in DOMAIN items :
                            items[i].status = "renamed"
                               /\ items[i].entity_id = old_full_id}) = 1
                     /\ \A i \in DOMAIN items :
                           (items[i].status = "renamed" /\ items[i].entity_id = old_full_id)
                              => items[i].new_id = new_full_id
                     /\ {old_full_id, new_full_id}
                           \cap IdsWithStatus(items, {"added", "deleted"}) = {}

\* C6: a file whose content id c differs from its filename key f while
\* f is no remote key yields no renamed item, and c is an added item whenever c is
\* no remote key.
C6_NewFileAdded ==
    DiffReturned =>
        \A f \in DOMAIN local :
            LET c == content_id(f, local[f])
            IN (c # f /\ f \notin DOMAIN remote)
                  => /\ f \notin IdsWithStatus(items, {"renamed"})
                     /\ (c \notin DOMAIN remote => c \in IdsWithStatus(items, {"added"}))

\* C7: a diff of any syncer (simple, helper, config entry, template, dashboard)
\* leaves the local store, its files with their names and contents, and the
\* remote store as they were.
C7_DiffReadOnly ==
    [][op'.name = "diff" => (local' = local /\ remote' = remote)]_vars

\* C7 witness: a dashboard diff has returned a list of several items.
C7_Witness ==
    /\ kind = "dashboard" /\ op.name = "diff" /\ ~raised
    /\ Len(items) >= 2
    /\ local # <<>> /\ remote # <<>>

\* C8: two diffs in a row, over the same stores, return the same set of items,
\* whatever the order in which each enumerates the files.
C8_DiffDeterministic ==
    [][(kind = "simple" /\ op.name = "diff" /\ op'.name = "diff" /\ ~raised /\ ~raised')
        => ItemSet(items') = ItemSet(items)]_vars

\* The remote calls that enumerate or read.
ReadCalls == {"list", "read"}

\* C9: a pull of any syncer, with sync_deletions true or false, leaves the remote
\* store as it was, and every remote call it issues enumerates or reads.
C9_PullRemoteReadOnly ==
    [][op'.name = "pull"
        => /\ remote' = remote
           /\ \A i \in DOMAIN calls' : calls'[i].op \in ReadCalls]_vars

\* C9 witness: a pull with sync_deletions has created and deleted local entities.
C9_Witness ==
    /\ op.name = "pull" /\ op.sync_deletions /\ ~op.dry_run
    /\ result.created # <<>> /\ result.deleted # <<>>
    /\ calls # <<>>

\* C10: a completed pull(sync_deletions=false) leaves the file of every local
\* entity whose key is not remote in place with its content, and records nothing
\* for the entity.
C10_PullKeepsOrphans ==
    [][(kind = "simple" /\ op'.name = "pull" /\ ~op'.sync_deletions /\ ~raised')
        => LET localDict == get_local_entities(local, glob', EmptyDict)
           IN \A k \in DOMAIN localDict.data \ DOMAIN remote :
                 /\ localDict.data[k].filename \in DOMAIN local'
                 /\ local'[localDict.data[k].filename] = local[localDict.data[k].filename]
                 /\ k \notin Range(result'.deleted)
                 /\ \A i \in DOMAIN result'.errors : result'.errors[i][1] # k]_vars

\* The local dict a simple or helper syncer reads from the files in the order given.
LocalDictOf(syncer, files, lorder) ==
    IF syncer = "helper"
    THEN Helper_get_local_entities(files, Helper_visit(HELPER_TYPES, lorder), EmptyDict)
    ELSE get_local_entities(files, lorder, EmptyDict)

\* C11: after a completed pull(sync_deletions=true) of the simple or the helper
\* syncer, every local entity whose key was not remote is recorded in
\* result.deleted, and the local store holds no entity of that key any more,
\* whatever the names of the files were.
C11_PullDeletesOrphans ==
    [][(kind \in {"simple", "helper"} /\ op'.name = "pull" /\ op'.sync_deletions /\ ~raised')
        => \A k \in DOMAIN LocalDictOf(kind, local, glob').data \ DOMAIN remote :
              /\ k \in Range(result'.deleted)
              /\ \A lorder \in Perms(DOMAIN local') :
                    k \notin DOMAIN LocalDictOf(kind, local', lorder).data]_vars

\* C12: a pull of the simple syncer returns a SyncResult, never raises; a remote
\* entity whose local record fails validation has an entry of its key in
\* result.errors, and every other remote entity is still processed: created when
\* it has no local record, updated when its local record differs.
C12_PullIsolatesFailures ==
    [][(kind = "simple" /\ op'.name = "pull")
        => LET localDict == get_local_entities(local, glob', EmptyDict)
               bad == {k \in DOMAIN remote \cap DOMAIN localDict.data :
                          ~Validates(clean_config(localDict.data[k]))}
           IN /\ ~raised'
              /\ \A k \in bad : \E i \in DOMAIN result'.errors : result'.errors[i][1] = k
              /\ \A k \in DOMAIN remote \ bad :
                    IF k \notin DOMAIN localDict.data
                    THEN k \in Range(result'.created)
                    ELSE normalize(clean_config(localDict.data[k]))
                            # normalize(ensure_id_in_config(k, remote[k]))
                         => k \in Range(result'.updated)]_vars

\* C13: a completed pull of the simple syncer writes no file and records nothing
\* for an entity whose local and remote records have equal normalized forms; and
\* a second pull with the same flags right after it, whatever order it
\* enumerates the files in, returns empty created, updated, deleted and renamed
\* lists and issues no file operation.
C13_PullWritesOnDifference ==
    [][(kind = "simple" /\ op'.name = "pull" /\ ~raised')
        => LET localDict == get_local_entities(local, glob', EmptyDict)
           IN /\ \A k \in DOMAIN remote \cap DOMAIN localDict.data :
                    (/\ Validates(clean_config(localDict.data[k]))
                     /\ normalize(clean_config(localDict.data[k]))
                           = normalize(ensure_id_in_config(k, remote[k])))
                       => /\ k \notin Range(result'.created) \cup Range(result'.updated)
                          /\ \A i \in DOMAIN fops' :
                                ~(fops'[i].op = "write" /\ fops'[i].file = get_filename(k))
              /\ \A lorder \in Perms(DOMAIN local') :
                    LET again == pull(local', remote', op'.sync_deletions, lorder)
                    IN ~again.raised
                          => /\ ~has_changes(again.result)
                             /\ again.fops = <<>>]_vars

\* A push of the simple syncer has returned its result.
PushReturned == kind = "simple" /\ op.name = "push" /\ ~raised

\* The remote calls of the last operation that are no listings, in order.
WriteCalls == SelectSeq(calls, LAMBDA c : c.op # "list")

\* The place of a part of push in the order renames, creates and updates,
\* deletions, reload.
PhaseRank(phase) ==
    CASE phase = "renames" -> 1
      [] phase = "saves" -> 2
      [] phase = "deletions" -> 3
      [] phase = "reload" -> 4
      [] OTHER -> 0

\* C14: among the remote calls of one push of the simple syncer, every call of
\* the rename phase comes before every create or update of phase 2, every call of
\* phase 2 before every deletion of phase 3, and the reload, issued at most once,
\* after all of them; each call takes a position of its own in the order of the
\* operation.
C14_PushPhaseOrder ==
    PushReturned =>
        /\ \A i, j \in DOMAIN WriteCalls :
              i < j => /\ PhaseRank(WriteCalls[i].phase) <= PhaseRank(WriteCalls[j].phase)
                       /\ WriteCalls[i].at < WriteCalls[j].at
        /\ \A i \in DOMAIN WriteCalls :
              LET c == WriteCalls[i]
              IN /\ c.phase = "renames" => c.op \in {"delete", "save"}
                 /\ c.phase = "saves" => c.op = "save"
                 /\ c.phase = "deletions" => c.op = "delete"
                 /\ c.op = "reload" <=> c.phase = "reload"
                 /\ c.op = "reload" => i = Len(WriteCalls)
                 /\ PhaseRank(c.phase) > 0

\* C14 witness: a push that issued calls in all four phases.
C14_Witness ==
    /\ PushReturned
    /\ {WriteCalls[i].phase : i \in DOMAIN WriteCalls}
          = {"renames", "saves", "deletions", "reload"}

\* The pending renames of a push over the stores, as the diff it calls lists them.
PendingRenames(files, remoteStore, lorder) ==
    renamed_pairs(diff(files, remoteStore, lorder).items)

\* The run state of a push after the first n of its pending renames.
AfterRenames(n, files, remoteStore, lorder, dry_run, fail) ==
    push_renames(SubSeq(PendingRenames(files, remoteStore, lorder), 1, n), dry_run, fail,
                 InPhase([RunState(files, remoteStore) EXCEPT !.calls = <<ListCall, ListCall>>],
                         "renames"))

\* C15: in a push of the simple syncer that is no dry run, the step of every
\* pending rename old -> new whose two remote calls succeed issues the remote
\* delete of old, then the remote create of new with the content of the file
\* "<old>.yaml", then renames that file to "<new>.yaml"; right after the step the
\* pair is in result.renamed, the remote store holds new and not old, and the file
\* is named for new.  The calls of the steps are the first calls of the push.
C15_RenameStep ==
    [][(kind = "simple" /\ op'.name = "push" /\ ~op'.dry_run /\ ~raised')
        => LET pairs == PendingRenames(local, remote, glob')
           IN \A i \in DOMAIN pairs :
                 LET old == pairs[i][1]
                     new == pairs[i][2]
                     before == AfterRenames(i - 1, local, remote, glob', FALSE, failure')
                     after == AfterRenames(i, local, remote, glob', FALSE, failure')
                     n == Len(before.calls)
                 IN (~Fails(failure', "delete", old) /\ ~Fails(failure', "save", new))
                       => /\ Len(after.calls) = n + 2
                          /\ SubSeq(after.calls, 1, n) = before.calls
                          /\ after.calls[n + 1].op = "delete" /\ after.calls[n + 1].key = old
                          /\ after.calls[n + 2].op = "save" /\ after.calls[n + 2].key = new
                          /\ after.calls[n + 1].ok /\ after.calls[n + 2].ok
                          /\ after.calls[n + 1].at < after.calls[n + 2].at
                          /\ after.fops = Append(before.fops,
                                                 [op |-> "rename", file |-> get_filename(old),
                                                  to |-> get_filename(new),
                                                  at |-> after.calls[n + 2].at + 1])
                          /\ after.result.renamed = Append(before.result.renamed, <<old, new>>)
                          /\ new \in DOMAIN after.remote /\ old \notin DOMAIN after.remote
                          /\ after.remote[new] = clean_config(before.files[get_filename(old)])
                          /\ get_filename(new) \in DOMAIN after.files
                          /\ get_filename(old) \notin DOMAIN after.files
                          /\ after.files[get_filename(new)] = before.files[get_filename(old)]
                          /\ SubSeq(calls', 1, n + 2) = after.calls
                          /\ \E j \in DOMAIN result'.renamed : result'.renamed[j] = <<old, new>>]_vars

\* C15 witness: a push that is no dry run and in which no call failed has
\* completed two renames.
C15_Witness ==
    /\ PushReturned /\ ~op.dry_run /\ failure = NoFail
    /\ Len(result.renamed) = 2

\* A remote call of the kind and key, issued in the phase, is among the calls.
Issued(cs, phase, opname, key) ==
    \E i \in DOMAIN cs :
        /\ cs[i].op = opname
        /\ cs[i].key = key
        /\ cs[i].phase = phase

\* C16: in a push of the simple syncer that is no dry run, the step of a pending
\* rename old -> new whose remote delete or create raises appends exactly one
\* entry of old to result.errors, does not record the pair as renamed and leaves
\* the files as they are; the push goes on: it issues the remote delete of every
\* other pending rename, the create or update of every entity of phase 2 and,
\* with sync_deletions, the delete of every entity of phase 3, and its result
\* holds one error of old, not the pair, while the file "<old>.yaml" is there.
C16_RenameFailureIsolated ==
    [][(kind = "simple" /\ op'.name = "push" /\ ~op'.dry_run /\ ~raised')
        => LET d == diff(local, remote, glob')
               pairs == renamed_pairs(d.items)
               localDict == get_local_entities(local, glob', EmptyDict)
               processed_ids == RenameOlds(pairs) \cup RenameNews(pairs)
           IN \A i \in DOMAIN pairs :
                 LET old == pairs[i][1]
                     new == pairs[i][2]
                     before == AfterRenames(i - 1, local, remote, glob', FALSE, failure')
                     after == AfterRenames(i, local, remote, glob', FALSE, failure')
                 IN (Fails(failure', "delete", old) \/ Fails(failure', "save", new))
                       => /\ Len(after.result.errors) = Len(before.result.errors) + 1
                          /\ after.result.errors[Len(after.result.errors)][1] = old
                          /\ after.result.renamed = before.result.renamed
                          /\ after.files = before.files
                          /\ Cardinality({j \in DOMAIN result'.errors :
                                             result'.errors[j][1] = old}) = 1
                          /\ <<old, new>> \notin Range(result'.renamed)
                          /\ get_filename(old) \in DOMAIN local'
                          /\ \A j \in DOMAIN pairs : Issued(calls', "renames", "delete", pairs[j][1])
                          /\ \A k \in Range(items_to_process(op'.force, localDict, d.items,
                                                              processed_ids)) :
                                Issued(calls', "saves", "save", k)
                          /\ op'.sync_deletions
                                => \A k \in Range(items_to_delete(op'.force, localDict, remote,
                                                                   d.items, processed_ids)) :
                                      Issued(calls', "deletions", "delete", k)]_vars

\* C16 witness: a push in which the remote create of a rename raised after the
\* delete, and which went on to another rename and to a deletion.
C16_Witness ==
    /\ PushReturned /\ ~op.dry_run
    /\ failure.op = "save"
    /\ \E i \in DOMAIN WriteCalls :
          WriteCalls[i].phase = "renames" /\ WriteCalls[i].op = "save" /\ ~WriteCalls[i].ok
    /\ result.errors # <<>>
    /\ \/ result.renamed # <<>>
       \/ result.deleted # <<>>
       \/ result.created # <<>>
       \/ result.updated # <<>>

\* The keys of the creates and updates that phase 2 of a push issued.
Phase2Keys(cs) ==
    {cs[i].key : i \in {j \in DOMAIN cs : cs[j].op = "save" /\ cs[j].phase = "saves"}}

\* C17: in a push of the simple syncer that is no dry run, the entities phase 2
\* writes remotely are, without force, exactly the added and modified items of
\* the diff, so that no entity whose normalized form equals the remote one is
\* written; with force they are exactly the local entities that are neither the
\* old nor the new key of a pending rename.  Each is written once.
C17_PushWriteSet ==
    [][(kind = "simple" /\ op'.name = "push" /\ ~op'.dry_run /\ ~raised')
        => LET d == diff(local, remote, glob')
               pairs == renamed_pairs(d.items)
               localDict == get_local_entities(local, glob', EmptyDict)
           IN /\ IF op'.force
                 THEN Phase2Keys(calls')
                         = DOMAIN localDict.data \ (RenameOlds(pairs) \cup RenameNews(pairs))
                 ELSE /\ Phase2Keys(calls') = IdsWithStatus(d.items, {"added", "modified"})
                      /\ \A k \in DOMAIN localDict.data \cap DOMAIN remote :
                            normalize(clean_config(localDict.data[k]))
                               = normalize(ensure_id_in_config(k, remote[k]))
                            => k \notin Phase2Keys(calls')
              /\ \A k \in Phase2Keys(calls') :
                    Cardinality({j \in DOMAIN calls' :
                                    /\ calls'[j].op = "save"
                                    /\ calls'[j].phase = "saves"
                                    /\ calls'[j].key = k}) = 1]_vars

\* C17 witness: a push without force that wrote one local entity and left alone
\* another, whose normalized form equals the remote one.
C17_Witness ==
    /\ PushReturned /\ ~op.dry_run /\ ~op.force /\ failure = NoFail
    /\ Phase2Keys(calls) # {}
    /\ \E k \in DOMAIN remote \ Phase2Keys(calls) :
          /\ get_filename(k) \in DOMAIN local
          /\ content_id(k, local[get_filename(k)]) = k
          /\ result.deleted = <<>> /\ result.renamed = <<>>

\* The local helpers of a helper push that exist remotely with an equal normalized
\* form and take no part in a rename.
UnchangedHelpers(files, remoteStore, lorder) ==
    LET visit == Helper_visit(HELPER_TYPES, lorder)
        localDict == Helper_get_local_entities(files, visit, EmptyDict)
        renames == renamed_pairs(Helper_diff_renamed(files, visit, remoteStore))
    IN {full_id \in DOMAIN localDict.data :
          /\ full_id \in DOMAIN remoteStore
          /\ full_id \notin RenameOlds(renames) \cup RenameNews(renames)
          /\ HelperValidates(Helper_strip_type(localDict.data[full_id]))
          /\ InputBoolean_normalize(Helper_strip_type(localDict.data[full_id]))
                = InputBoolean_normalize(
                      ensure_id_in_config(split_last(full_id), remoteStore[full_id]))}

\* C18: a HelperSyncer.push with force=false issues no remote create or update for
\* a local helper that exists remotely with an equal normalized form, and such a
\* helper is not in result.updated.
C18_HelperPushHonoursForce ==
    [][(kind = "helper" /\ op'.name = "push" /\ ~op'.force /\ ~raised') =>
          \A full_id \in UnchangedHelpers(local, remote, glob') :
              /\ ~\E i \in DOMAIN calls' :
                     /\ calls'[i].op \in {"create", "update"}
                     /\ calls'[i].key = full_id
              /\ full_id \notin Range(result'.updated)]_vars

\* The old keys of the renames a push of the given kind of syncer finds pending.
PushRenameOlds(syncer, files, remoteStore, lorder) ==
    CASE syncer = "simple" -> RenameOlds(PendingRenames(files, remoteStore, lorder))
      [] syncer = "helper" ->
            RenameOlds(renamed_pairs(Helper_diff_renamed(
                files, Helper_visit(HELPER_TYPES, lorder), remoteStore)))
      [] OTHER -> {}

\* C19: a push (simple, helper, config entry, template) with sync_deletions=false
\* leaves result.deleted empty, issues no remote delete but the delete of the old
\* key inside a rename, and removes no other remote entity.
C19_NoUnrequestedDeletions ==
    [][(kind # "dashboard" /\ op'.name = "push" /\ ~op'.sync_deletions) =>
          LET olds == PushRenameOlds(kind, local, remote, glob')
          IN /\ result'.deleted = <<>>
             /\ \A i \in DOMAIN calls' :
                    calls'[i].op = "delete" =>
                        calls'[i].phase = "renames" /\ calls'[i].key \in olds
             /\ DOMAIN remote \ olds \subseteq DOMAIN remote']_vars

\* A push of the simple syncer without sync_deletions has deleted the old key of a
\* rename and has left a remote entity that no local file carries the id of.
C19_Witness ==
    /\ kind = "simple" /\ op.name = "push" /\ ~op.sync_deletions /\ ~op.dry_run
    /\ ~raised /\ result.renamed # <<>>
    /\ \E i \in DOMAIN calls : calls[i].op = "delete" /\ calls[i].ok
    /\ \E k \in DOMAIN remote :
          \A f \in DOMAIN local : content_id(f, local[f]) # k

\* The positions of the calls of a log that changed the remote store, and of its
\* reload calls.
AppliedMutations(cs) == {i \in DOMAIN cs : cs[i].op \in {"save", "delete"} /\ cs[i].ok}
Reloads(cs) == {i \in DOMAIN cs : cs[i].op = "reload"}

\* C20: a push of the simple syncer that is no dry run invokes the reload hook
\* exactly once, as its last call, when a remote create, update or delete was
\* applied during the call (one inside a rename that failed later included), and
\* not at all otherwise; a dry run never invokes it; a failing reload leaves the
\* result lists as they are without the failure.
C20_ReloadAfterPush ==
    [][(kind = "simple" /\ op'.name = "push" /\ ~raised') =>
          /\ op'.dry_run => Reloads(calls') = {}
          /\ ~op'.dry_run =>
                /\ Reloads(calls') = IF AppliedMutations(calls') # {}
                                       THEN {Len(calls')} ELSE {}
                /\ failure'.op = "reload" =>
                       result' = push(local, remote, op'.force, op'.sync_deletions, FALSE,
                                      glob', NoFail).result]_vars

\* The diff of a syncer of the given kind over the stores, in the build in which
\* a diff hands its items back, and the orders a diff may enumerate the local
\* store in.
DiffOf(syncer, files, remoteStore, lorder) ==
    CASE syncer = "simple" -> diff(files, remoteStore, lorder)
      [] syncer = "helper" -> Helper_diff(files, remoteStore, lorder)
      [] syncer = "config_entry" -> ConfigEntry_diff(files, remoteStore, lorder, NoFail)
      [] syncer = "template" -> Template_diff(files, remoteStore, lorder, TRUE)
      [] syncer = "dashboard" -> Dashboard_diff(files, remoteStore, lorder, NoFail, TRUE)
LocalOrders(syncer, files) ==
    IF syncer = "dashboard" THEN Perms(Dashboard_dirs(files)) ELSE Perms(DOMAIN files)

\* C21: a push with dry_run=true, in every syncer and for every force and
\* sync_deletions, issues no remote call but the listings and reads, performs no
\* file operation and leaves both stores as they were; every entity it records in
\* result.created is reported as added by a diff that follows and returns.
C21_DryRunTouchesNoStore ==
    [][(op'.name = "push" /\ op'.dry_run) =>
          /\ local' = local /\ remote' = remote /\ fops' = <<>>
          /\ \A i \in DOMAIN calls' : calls'[i].op \in {"list", "read"}
          /\ \A lorder \in LocalOrders(kind, local') :
                LET d == DiffOf(kind, local', remote', lorder)
                IN ~d.raised =>
                      Range(result'.created) \subseteq IdsWithStatus(d.items, {"added"})]_vars

\* A dry run of a push has recorded a creation and a deletion.
C21_Witness ==
    /\ op.name = "push" /\ op.dry_run /\ ~raised
    /\ result.created # <<>> /\ result.deleted # <<>>
    /\ fops = <<>> /\ \A i \in DOMAIN calls : calls[i].op \in {"list", "read"}

\* push() of the simple or the helper syncer.
PushOf(syncer, files, remoteStore, force, sync_deletions, dry_run, lorder, fail) ==
    CASE syncer = "simple" ->
             push(files, remoteStore, force, sync_deletions, dry_run, lorder, fail)
      [] syncer = "helper" ->
             Helper_push(files, remoteStore, force, sync_deletions, dry_run, lorder, fail)

\* The four mutation lists of a result.
MutationLists(r) == <<r.created, r.updated, r.deleted, r.renamed>>

\* C22: in the simple and the helper syncer, a push that is no dry run, in which
\* no remote call fails and which returns, reports the same created, updated,
\* deleted and renamed lists as the dry-run push over the same stores with the
\* same flags and the same enumeration order.
C22_DryRunPredictsPush ==
    [][(kind \in {"simple", "helper"} /\ op'.name = "push" /\ ~op'.dry_run
          /\ failure' = NoFail /\ ~raised') =>
            LET dry == PushOf(kind, local, remote, op'.force, op'.sync_deletions, TRUE,
                              glob', NoFail)
            IN ~dry.raised /\ MutationLists(dry.result) = MutationLists(result')]_vars

\* A real push without failure that created, updated, deleted and renamed.
C22_Witness ==
    /\ kind \in {"simple", "helper"} /\ op.name = "push" /\ ~op.dry_run
    /\ failure = NoFail /\ ~raised
    /\ result.renamed # <<>> /\ result.deleted # <<>>
    /\ result.created # <<>> \/ result.updated # <<>>

\* The remote calls that write an entity.
WriteOps == {"save", "create", "update"}

\* The positions of the remote calls of a log that raised.
FailedCalls(cs) == {i \in DOMAIN cs : "phase" \in DOMAIN cs[i] /\ ~cs[i].ok}

\* Exactly one remote call of the log raised, a write of the loop over the items
\* to process.
OneFailedWrite(cs) ==
    /\ Cardinality(FailedCalls(cs)) = 1
    /\ \A i \in FailedCalls(cs) : cs[i].op \in WriteOps /\ cs[i].phase = "saves"

\* The keys a result records as created or updated.
Synced(r) == Range(r.created) \cup Range(r.updated)

\* A push step of one of the named syncers without force in which exactly one
\* write failed: one error, the other entities to push recorded, and no write for
\* them in a second push of the same flags on the stores the first one left.
IsolatesFailure(syncers) ==
    (kind \in syncers /\ op'.name = "push" /\ ~op'.dry_run /\ ~op'.force
       /\ ~raised' /\ OneFailedWrite(calls')) =>
         LET all == PushOf(kind, local, remote, FALSE, op'.sync_deletions, FALSE, glob',
                           NoFail)
             pushed == Synced(all.result)
             synced == Synced(result')
         IN /\ Len(result'.errors) = 1
            /\ synced \subseteq pushed
            /\ Cardinality(synced) = Cardinality(pushed) - 1
            /\ \A lorder \in Perms(DOMAIN local') :
                  LET again == PushOf(kind, local', remote', FALSE, op'.sync_deletions,
                                      FALSE, lorder, NoFail)
                  IN ~again.raised =>
                        \A i \in DOMAIN again.calls :
                            again.calls[i].op \in WriteOps =>
                                again.calls[i].key \notin synced

\* C23: when, in a push of the simple or the helper syncer without force, the
\* remote write of exactly one of the entities to push fails, the result holds
\* exactly one error and the other entities to push are recorded created or
\* updated; a second push of the same flags on the stores the first one left
\* issues no remote write for any of those.
C23_PartialFailureIsolation == [][IsolatesFailure({"simple", "helper"})]_vars

\* The simple syncer alone isolates the failure.
SimplePartialFailureIsolation == [][IsolatesFailure({"simple"})]_vars

\* A push of the simple syncer in which one of two writes failed.
SimplePartialFailure ==
    /\ kind = "simple" /\ op.name = "push" /\ ~op.dry_run /\ ~op.force /\ ~raised
    /\ OneFailedWrite(calls) /\ Synced(result) # {}

\* The positions of the raising remote calls of a log that concern one entity.
FailedEntityCalls(cs) == {i \in FailedCalls(cs) : cs[i].op # "reload"}

\* C24: a push of the simple syncer returns a result and does not raise, whether
\* a local record fails validation or a remote call fails, and every failing
\* entity is one entry of result.errors.
C24_PushNeverAborts ==
    [][(kind = "simple" /\ op'.name = "push") =>
          ~raised' /\ Len(result'.errors) = Cardinality(FailedEntityCalls(calls'))]_vars

\* The part of C24 about remote calls: in a push that returns, every raising
\* entity call is one entry of result.errors.
RemoteFailureIsRecorded ==
    [][(kind = "simple" /\ op'.name = "push" /\ ~raised') =>
          Len(result'.errors) = Cardinality(FailedEntityCalls(calls'))]_vars

\* The keys of the local config entry files whose record the model rejects and
\* which the remote store holds too.
RejectedLocalEntries ==
    {local[f].entry_id : f \in {g \in DOMAIN local : local[g].entry_id \in DOMAIN remote
                                                     /\ ~TodHelper_validates(local[g])}}

\* C25: when a local config entry file of a domain with a model fails validation
\* and its entry is remote too, a diff, pull or push in which no remote call fails
\* raises or records an error for that entry.
C25_ValidationFailureSurfaces ==
    [][(kind = "config_entry" /\ op'.name \in {"diff", "pull", "push"} /\ failure' = NoFail) =>
          \A k \in RejectedLocalEntries :
              raised' \/ \E i \in DOMAIN result'.errors : result'.errors[i][1] = k]_vars

\* The keys of the renamed pairs of a result, both components of each.
RECURSIVE RenamedKeys(_)
RenamedKeys(pairs) ==
    IF pairs = <<>> THEN <<>>
    ELSE <<Head(pairs)[1], Head(pairs)[2]>> \o RenamedKeys(Tail(pairs))

\* Every key the four mutation lists of a result hold, one entry per occurrence.
MutationKeys(r) == r.created \o r.updated \o r.deleted \o RenamedKeys(r.renamed)

\* No element of the sequence occurs twice.
NoDuplicates(seq) == \A i, j \in DOMAIN seq : i # j => seq[i] # seq[j]

\* C26: in the result of a pull or push of the simple, helper or config entry
\* syncer no key occurs in two of the lists created, updated, deleted and renamed
\* (both components of a renamed pair counted) or twice in one of them.
C26_MutationListsDisjoint ==
    (kind \in {"simple", "helper", "config_entry"} /\ op.name \in {"pull", "push"}) =>
        NoDuplicates(MutationKeys(result))

\* cli.push and cli.pull with url and token configured: asyncio.run(_push(...))
\* prints a summary of the result and returns, and the process exits with 0; only
\* an exception that leaves the syncer ends the process with a non-zero code.
\* Neither _push nor _pull reads result.errors to decide the exit code.
cli_exit_code(syncer_raised, sync_result) == IF syncer_raised THEN 1 ELSE 0

\* C27: the push and pull commands exit non-zero exactly when the result of the
\* syncer holds at least one per-entity error.
C27_ExitCodeReflectsErrors ==
    op.name \in {"push", "pull"} =>
        (cli_exit_code(raised, result) # 0 <=> result.errors # <<>>)

\* A command whose run recorded no error exits with 0.
NoErrorExitsZero ==
    (op.name \in {"push", "pull"} /\ ~raised /\ result.errors = <<>>) =>
        cli_exit_code(raised, result) = 0

(* ------------------------------------------------------------------ *)
(* models.py: BaseEntityModel.normalize over mappings that keep their  *)
(* key order, and the comparisons diff makes of normalized records     *)
(* ------------------------------------------------------------------ *)

\* The most fields a record of an initial state has.
MaxFields == 3

\* A mapping as Python keeps it: the sequence of its fields in insertion order.
\* A field holds a scalar v; a field that holds a list has v = EmptyList, or
\* v = OneItemList and in sub the fields of the mapping that is its one item.
EmptyList == "[]"
OneItemList == "[.]"
Field(k, v) == [k |-> k, v |-> v, sub |-> <<>>]
ListField(k, item) == [k |-> k, v |-> IF item = <<>> THEN EmptyList ELSE OneItemList, sub |-> item]

\* "k in data" and data[k]
HasKey(data, k) == \E i \in DOMAIN data : data[i].k = k
GetField(data, k) == data[CHOOSE i \in DOMAIN data : data[i].k = k]

\* The model classes at hand.  Of Automation the fields id, alias, trigger and
\* mode are kept (description is declared as alias is, condition and action as
\* trigger); of View the fields position, title, path and cards (type, icon and
\* badges are declared as title is).
ModelClasses == {"Automation", "View"}

\* cls.key_order(): the declared fields in the order of the class body.
key_order(cls) ==
    IF cls = "Automation" THEN <<"id", "alias", "trigger", "mode">>
    ELSE <<"position", "title", "path", "cards">>

\* The declared default of a field.
field_default(cls, k) ==
    CASE k = "alias" -> Field(k, "")
      [] k = "mode" -> Field(k, "single")
      [] k \in {"trigger", "cards"} -> ListField(k, <<>>)
      [] OTHER -> Field(k, None)

\* The fields declared without a default.
required_fields(cls) == IF cls = "Automation" THEN {"id"} ELSE {}

\* The declared fields whose type admits None.
optional_fields(cls) == IF cls = "Automation" THEN {} ELSE {"position", "title", "path"}

\* cls.model_validate(data) does not raise: the required fields are there and no
\* field of a type without None holds None.
model_validate(cls, data) ==
    /\ \A k \in required_fields(cls) : HasKey(data, k)
    /\ \A i \in DOMAIN data :
          (data[i].k \in Range(key_order(cls)) /\ data[i].k \notin optional_fields(cls))
             => data[i].v # None

\* A dump that leaves out the declared fields the input lacks.
model_dump_exclude_unset(cls, data) ==
    SelectSeq([i \in DOMAIN key_order(cls) |->
                  IF HasKey(data, key_order(cls)[i]) THEN GetField(data, key_order(cls)[i])
                  ELSE Field(key_order(cls)[i], None)]
                 \o SelectSeq(data, LAMBDA f : f.k \notin Range(key_order(cls))),
              LAMBDA f : f.v # None)

\* A dump that lists the extra fields last key first.
model_dump_reversing_extras(cls, data) ==
    LET declared == [i \in DOMAIN key_order(cls) |->
                        IF HasKey(data, key_order(cls)[i])
                        THEN GetField(data, key_order(cls)[i])
                        ELSE field_default(cls, key_order(cls)[i])]
        extra == SelectSeq(data, LAMBDA f : f.k \notin Range(key_order(cls)))
        reversed == [i \in DOMAIN extra |-> extra[Len(extra) + 1 - i]]
    IN SelectSeq(declared \o reversed, LAMBDA f : f.v # None)

\* model_dump(exclude_none=True) of the validated model: the declared fields in
\* declared order, each with its value or its default, then the extra fields in
\* the order of the input; the fields that hold None are left out.
model_dump(cls, data) ==
    LET declared == [i \in DOMAIN key_order(cls) |->
                        IF HasKey(data, key_order(cls)[i])
                        THEN GetField(data, key_order(cls)[i])
                        ELSE field_default(cls, key_order(cls)[i])]
        extra == SelectSeq(data, LAMBDA f : f.k \notin Range(key_order(cls)))
    IN SelectSeq(declared \o extra, LAMBDA f : f.v # None)

\* BaseEntityModel.normalize(data), for data the model accepts.
BaseEntityModel_normalize(cls, data) == model_dump(cls, data)

\* a == b on two dicts: the same keys with equal values, whatever the order of
\* the keys, in nested mappings too.
AsMap(data) == {[k |-> data[i].k, v |-> data[i].v, sub |-> Range(data[i].sub)] : i \in DOMAIN data}
dict_equal(a, b) == AsMap(a) = AsMap(b)

\* yaml.dump(data, sort_keys=False): the text lists the keys in the order of the
\* mapping, those of a nested mapping indented.
RECURSIVE yaml_nested(_)
yaml_nested(sub) ==
    IF sub = <<>> THEN <<>>
    ELSE <<"  " \o Head(sub)[1] \o ":", Head(sub)[2]>> \o yaml_nested(Tail(sub))
RECURSIVE yaml_text(_)
yaml_text(data) ==
    IF data = <<>> THEN <<>>
    ELSE <<Head(data).k \o ":", Head(data).v>> \o yaml_nested(Head(data).sub)
            \o yaml_text(Tail(data))

\* {"id": entity_id, **config} when config has no id.
ensure_id_in_mapping(entity_id, config) ==
    IF HasKey(config, "id") THEN config ELSE <<Field("id", entity_id)>> \o config

\* normalized.pop("position", None)
pop_position(view) == SelectSeq(view, LAMBDA f : f.k # "position")

\* SimpleEntitySyncer.diff for an entity on both sides: the normalized records are
\* compared as dicts.
Simple_records_differ(entity_id, local_config, remote_config) ==
    ~dict_equal(BaseEntityModel_normalize("Automation", local_config),
                BaseEntityModel_normalize("Automation",
                                          ensure_id_in_mapping(entity_id, remote_config)))

\* DashboardSyncer.diff for a dashboard on both sides whose config holds one
\* view: _normalize_config normalizes the view and drops its position, and the
\* YAML texts of the two results are compared.
Dashboard_records_differ(local_view, remote_view) ==
    yaml_text(pop_position(BaseEntityModel_normalize("View", local_view)))
        # yaml_text(pop_position(BaseEntityModel_normalize("View", remote_view)))

\* The fields the records of an initial state are made of.
TriggerItem == <<(<<"platform", "state">>), (<<"entity_id", "e">>)>>
CardItem == <<(<<"type", "entities">>), (<<"entity", "e">>)>>
InitFields(cls) ==
    IF cls = "Automation"
    THEN {Field("id", "c"), Field("alias", ""), Field("alias", "Foo"), Field("alias", None),
          Field("mode", "single"), Field("mode", "queued"),
          ListField("trigger", <<>>), ListField("trigger", TriggerItem),
          Field("x", "1"), Field("x", None), Field("y", "2")}
    ELSE {Field("position", "1"), Field("title", "Home"), Field("title", None),
          Field("path", "home"), ListField("cards", <<>>), ListField("cards", CardItem),
          Field("x", "1"), Field("x", None), Field("y", "2")}

\* The records of at most MaxFields fields, no key twice.
InitRecords(cls) ==
    {r \in UNION {[1..n -> InitFields(cls)] : n \in 0..MaxFields} :
        \A i, j \in DOMAIN r : i # j => r[i].k # r[j].k}

\* The records of the same keys and values as data in any order of the keys, at
\* top level and in the nested mappings.
Reorderings(data) ==
    LET nested == UNION {Perms(Range(data[i].sub)) : i \in DOMAIN data}
    IN UNION {{[i \in DOMAIN top |-> [top[i] EXCEPT !.sub = ch[i]]] :
                  ch \in {c \in [DOMAIN top -> nested] :
                             \A i \in DOMAIN top : Range(c[i]) = Range(top[i].sub)}} :
              top \in Perms(Range(data))}

\* One entity c on both sides: a local record and a remote record of the same
\* keys and values, in any key order.
NormalizeInit ==
    /\ kind \in ModelClasses
    /\ \E r \in InitRecords(kind) :
          /\ local = [k \in {"c"} |-> r]
          /\ \E r2 \in Reorderings(r) : remote = [k \in {"c"} |-> r2]
    /\ InitRun

\* What an action of this specification leaves alone.
NormalizeFrame == UNCHANGED <<kind, local, remote, failure, glob, result, calls, fops, nops>>

\* A call of cls.normalize: on the local record first, then on what the call
\* before returned.  A record the model rejects makes it raise.
Normalize ==
    /\ kind \in ModelClasses
    /\ op.name \in {"init", "normalize"}
    /\ Len(normalized) < 2 /\ ~raised
    /\ LET data == IF normalized = <<>> THEN local["c"] ELSE normalized[Len(normalized)]
       IN /\ raised' = ~model_validate(kind, data)
          /\ normalized' = IF model_validate(kind, data)
                           THEN Append(normalized, BaseEntityModel_normalize(kind, data))
                           ELSE normalized
    /\ op' = Op("normalize", FALSE, FALSE, FALSE)
    /\ items' = <<>>
    /\ NormalizeFrame

\* The step of diff() for the entity c, which is on both sides: a "modified" item
\* when the normalized records differ.
RecordDiff ==
    /\ kind \in ModelClasses
    /\ op.name = "init"
    /\ LET ok == /\ model_validate(kind, local["c"])
                 /\ model_validate(kind, IF kind = "Automation"
                                         THEN ensure_id_in_mapping("c", remote["c"])
                                         ELSE remote["c"])
           differ == IF kind = "Automation"
                     THEN Simple_records_differ("c", local["c"], remote["c"])
                     ELSE Dashboard_records_differ(local["c"], remote["c"])
       IN /\ raised' = ~ok
          /\ items' = IF ok /\ differ THEN <<DiffItem("c", "modified", None)>> ELSE <<>>
    /\ op' = Op("diff", FALSE, FALSE, FALSE)
    /\ UNCHANGED normalized
    /\ NormalizeFrame

NormalizeNext == Normalize \/ RecordDiff

NormalizeSpec == NormalizeInit /\ [][NormalizeNext]_vars

\* C28: a second normalize returns what the first one returned.
C28_NormalizeIdempotent ==
    (kind \in ModelClasses /\ Len(normalized) = 2) => normalized[2] = normalized[1]

\* A record whose normalization changed it was normalized twice.
C28_Witness ==
    /\ kind \in ModelClasses /\ Len(normalized) = 2
    /\ normalized[1] # local["c"]
    /\ \E i \in DOMAIN local["c"] : local["c"][i].v = None

\* The fields of a record the model does not declare.
UnknownFields(cls, data) == {data[i] : i \in {j \in DOMAIN data : data[j].k \notin Range(key_order(cls))}}

C30_KeyOrderIndependence ==
    (kind \in ModelClasses /\ op.name = "diff" /\ ~raised
       /\ dict_equal(local["c"], remote["c"])) => items = <<>>

\* The same for the records the simple syncer compares as dicts.
SimpleKeyOrderIndependence ==
    (kind = "Automation" /\ op.name = "diff" /\ ~raised
       /\ dict_equal(local["c"], remote["c"])) => items = <<>>

\* A diff of two records of the simple syncer that differ in key order only.
SimpleKeyOrderDiffers ==
    /\ kind = "Automation" /\ op.name = "diff" /\ ~raised
    /\ local["c"] # remote["c"] /\ dict_equal(local["c"], remote["c"])

\* The remote key the file f embeds: the entry_id of its content, under the
\* subtype of its directory for a template file.
EmbeddedKey(syncer, files, f) ==
    IF syncer = "template" THEN full_id_of(Template_path[f][1], files[f].entry_id)
    ELSE files[f].entry_id

\* A push of the config entry or the template syncer that is no dry run and in
\* which no call fails.
OpaquePush(syncer, files, remoteStore, force, sync_deletions, lorder, fresh) ==
    IF syncer = "template"
    THEN Template_push(files, remoteStore, force, sync_deletions, FALSE, lorder, NoFail,
                       fresh, TRUE)
    ELSE ConfigEntry_push(files, remoteStore, force, sync_deletions, FALSE, lorder, NoFail,
                          fresh)

\* No two local files embed the same entry_id.
DistinctEntryIds ==
    \A f, g \in DOMAIN local :
        (f # g /\ local[f].entry_id # Absent)
           => EmbeddedKey(kind, local, f) # EmbeddedKey(kind, local, g)

\* C31: after a push of the config entry or the template syncer over local files
\* of distinct entry ids has created local-only entities, each new remote entry
\* is embedded by exactly one local file, and a second push of the same flags on
\* the resulting stores issues no create.
C31_CreateEmbedsEntryId ==
    [][(kind \in {"config_entry", "template"} /\ op'.name = "push" /\ ~op'.dry_run
          /\ ~raised' /\ result'.created # <<>> /\ DistinctEntryIds) =>
            LET news == DOMAIN remote' \ DOMAIN remote
            IN /\ Cardinality(news) = Len(result'.created)
               /\ \A n \in news :
                     Cardinality({f \in DOMAIN local' : EmbeddedKey(kind, local', f) = n}) = 1
               /\ \A lorder \in Perms(DOMAIN local'), fresh \in FreshOrders :
                     LET again == OpaquePush(kind, local', remote', op'.force,
                                             op'.sync_deletions, lorder, fresh)
                     IN ~again.raised =>
                           \A i \in DOMAIN again.calls : again.calls[i].op # "create"]_vars

\* The follow-up update_entity_registry call of the last template push failed.
RegistryUpdateFailed ==
    /\ kind = "template" /\ op.name = "push" /\ ~op.dry_run /\ ~raised
    /\ \E i \in DOMAIN calls : calls[i].op = "rename_entity" /\ ~calls[i].ok

\* C32: when the update_entity_registry call of a template push fails for an
\* entity, result.errors holds an entry, the entity's create or update stays
\* recorded, and result.renamed holds no pair starting at the entity id the
\* entity still has.
C32_RegistryFailureReported ==
    RegistryUpdateFailed =>
        /\ result.errors # <<>>
        /\ result.created \o result.updated # <<>>
        /\ \A i \in DOMAIN calls :
              (calls[i].op = "rename_entity" /\ ~calls[i].ok) =>
                  \A j \in DOMAIN result.renamed :
                      result.renamed[j][1] # remote[calls[i].key].id

\* A failing update_entity_registry call changes nothing but the rename: the
\* push records the creates, updates and deletions of the push in which no call
\* fails, and adds no rename pair to them.
RegistryFailureNotFatal ==
    [][(kind = "template" /\ op'.name = "push" /\ ~op'.dry_run /\ ~raised'
          /\ failure'.op = "rename_entity") =>
            \E fresh \in FreshOrders, file_path_ok \in BOOLEAN :
                LET clean == Template_push(local, remote, op'.force, op'.sync_deletions,
                                           FALSE, glob', NoFail, fresh, file_path_ok)
                IN /\ result'.created = clean.result.created
                   /\ result'.updated = clean.result.updated
                   /\ result'.deleted = clean.result.deleted
                   /\ Len(result'.renamed) < Len(clean.result.renamed)
                   /\ result'.errors = clean.result.errors]_vars

\* The entry ids the files of a store embed.
EmbeddedEntryIds(files) == {files[f].entry_id : f \in DOMAIN files} \ {Absent}

\* C33: a pull or push of the config entry syncer replaces or deletes the file of
\* no other entry: an entry id some local file embedded is still embedded by a
\* local file afterwards, unless the pull deleted the entry or the push created
\* the entity anew and rewrote its file.
C33_NoForeignFileReplaced ==
    [][(kind = "config_entry" /\ op'.name \in {"pull", "push"} /\ ~op'.dry_run /\ ~raised'
          /\ DistinctEntryIds) =>
            \A e \in EmbeddedEntryIds(local) :
                \/ e \in EmbeddedEntryIds(local')
                \/ op'.name = "pull" /\ e \in Range(result'.deleted)
                \/ op'.name = "push" /\ e \in Range(result'.created)]_vars

\* The number of fetches of the remote entity list in a call log.
Enumerations(cs) == Cardinality({i \in DOMAIN cs : cs[i].op = "list"})

\* The remote writes of a call log are issued one after the other.
Sequential(cs) ==
    \A i, j \in DOMAIN cs :
        (i < j /\ cs[i].op # "list" /\ cs[j].op # "list") => cs[i].at < cs[j].at

\* C34: a call of pull, push or diff of the simple syncer fetches the remote
\* entity list exactly once, and issues its remote writes one after the other.
C34_OneEnumeration ==
    (kind = "simple" /\ op.name \in {"pull", "push", "diff"} /\ ~raised) =>
        Enumerations(calls) = 1 /\ Sequential(calls)

\* pull and diff fetch the remote entity list once, push fetches it twice; the
\* remote writes of each are issued one after the other.
EnumerationsPerCall ==
    (kind = "simple" /\ op.name \in {"pull", "push", "diff"} /\ ~raised) =>
        /\ Enumerations(calls) = IF op.name = "push" THEN 2 ELSE 1
        /\ Sequential(calls)

\* The url paths whose config the last push saved, and that are still there.
SavedUrlPaths ==
    {calls[i].key : i \in {j \in DOMAIN calls : calls[j].op = "save" /\ calls[j].ok}}
        \cap DOMAIN remote

\* C36: the position of a view is local only: a dashboard whose local and remote
\* views differ in nothing but position gets no diff item, and no config a
\* dashboard push has saved to the remote store holds a view with a position.
C36_PositionIsLocalOnly ==
    /\ (kind = "dashboard" /\ op.name = "diff" /\ ~raised) =>
            \A dir_name \in Dashboard_dirs(local) :
                LET l == Dashboard_get_local_entities(local, <<dir_name>>, EmptyDict)
                    u == url_path_from_dir_name(dir_name, l.data[dir_name].meta.url_path)
                IN (/\ u \in DOMAIN remote
                    /\ "no_config" \notin DOMAIN remote[u]
                    /\ Len(remote[u].views) = Len(l.data[dir_name].config.views)
                    /\ \A i \in DOMAIN remote[u].views :
                          View_without_position(View_normalize(remote[u].views[i]))
                             = View_without_position(
                                   View_normalize(l.data[dir_name].config.views[i])))
                      => \A j \in DOMAIN items :
                            ~(items[j].entity_id = dir_name /\ items[j].status = "modified")
    /\ (kind = "dashboard" /\ op.name = "push" /\ ~op.dry_run /\ ~raised) =>
            \A u \in SavedUrlPaths :
                \A i \in DOMAIN remote[u].views : remote[u].views[i].position = NoPosition

(* ------------------------------------------------------------------ *)
(* dashboards.py: view files whose position was edited by hand         *)
(* ------------------------------------------------------------------ *)

\* The files of a dashboard directory whose view files "<i>_<path>.yaml" hold the
\* views vs, view i with the position ps[i]: a position is what the user made of
\* it, or missing.
PositionedDashboardFiles(dir_name, url_path, vs, ps) ==
    LET plain == InitDashboardFiles(dir_name, url_path, vs)
    IN [p \in DOMAIN plain |->
           IF p = full_id_of(dir_name, META_FILE) THEN plain[p]
           ELSE [plain[p] EXCEPT !.position = ps[plain[p].position]]]

\* The dashboard syncer over one local dashboard directory whose views carry any
\* positions, and the remote stores of DashboardInit.
ReorderInit ==
    /\ kind = "dashboard"
    /\ \E d \in {<<"lovelace", Absent>>, <<"x", "dashboard-x">>},
          vs \in InitViews \ {<<>>},
          ps \in [1..MaxViews -> {NoPosition} \cup 1..MaxViews] :
          local = PositionedDashboardFiles(d[1], d[2], vs, ps)
    /\ \E r1 \in {<<>>} \cup {[u \in {None} |-> RemoteDashboard(vs)] : vs \in DefaultViews},
          r2 \in {<<>>} \cup {[u \in {"dashboard-x"} |-> RemoteDashboard(vs)] :
                                 vs \in InitViews} :
          remote = Merge(r1, r2)
    /\ InitRun

ReorderNext == DashboardPush \/ DashboardDiff

ReorderSpec == ReorderInit /\ [][ReorderNext]_vars

\* The dashboard push that has just ended was not a dry run, synced deletions,
\* had no url path rename to make, and none of its calls failed.
CleanDashboardPush ==
    /\ kind = "dashboard" /\ op'.name = "push" /\ ~op'.dry_run /\ op'.sync_deletions
    /\ ~raised' /\ failure' = NoFail /\ result'.errors = <<>> /\ result'.renamed = <<>>

\* C35: after a dashboard push with sync_deletions that is no dry run, has no url
\* path rename to make and no failing call, a diff of the stores as the push left
\* them returns no items, whatever positions the local view files carried.
C35_DashboardPushConvergence ==
    [][CleanDashboardPush =>
          \A dorder \in Perms(Dashboard_dirs(local')) :
              Dashboard_diff(local', remote', dorder, NoFail, TRUE).items = <<>>]_vars

\* The positions of the view files of every local dashboard directory rise with
\* the file names.
PositionsFollowFilenames ==
    \A dir_name \in Dashboard_dirs(local) :
        LET view_files == Dashboard_view_files(local, dir_name)
        IN Dashboard_sort_views(view_files, local, dir_name) = view_files

\* A dashboard push as in C35 over view files whose positions follow their file
\* names is followed by a diff without items.
OrderedDashboardPushConvergence ==
    [][(CleanDashboardPush /\ PositionsFollowFilenames) =>
          \A dorder \in Perms(Dashboard_dirs(local')) :
              Dashboard_diff(local', remote', dorder, NoFail, TRUE).items = <<>>]_vars

\* The positions of the remote writes to a key in a call log.
WritesTo(cs, key) == {i \in DOMAIN cs : cs[i].op \in WriteOps /\ cs[i].key = key}

\* C37: in a push of the simple or the helper syncer whose renames have distinct
\* keys, the new key of every renamed entity is written remotely exactly once,
\* inside the rename, and is recorded in result.renamed only, not in
\* result.created or result.updated.
C37_NoDoubleProcessing ==
    (kind \in {"simple", "helper"} /\ op.name = "push" /\ ~raised
       /\ NoDuplicates(RenamedKeys(result.renamed))) =>
        \A p \in Range(result.renamed) :
            /\ p[2] \notin Range(result.created) \cup Range(result.updated)
            /\ ~op.dry_run =>
                  /\ Cardinality(WritesTo(calls, p[2])) = 1
                  /\ \A i \in WritesTo(calls, p[2]) : calls[i].phase = "renames"

\* How many files of a store hold the record.
Copies(files, record) == Cardinality({f \in DOMAIN files : files[f] = record})

\* C38: a push of the simple syncer destroys no local entity file: every record a
\* local file held before the call is held by as many local files afterwards.
C38_PushKeepsLocalRecords ==
    [][(kind = "simple" /\ op'.name = "push" /\ ~raised') =>
          \A f \in DOMAIN local : Copies(local', local[f]) = Copies(local, local[f])]_vars

\* The remote keys that have no local counterpart and are no old key of a pending
\* rename.
Orphans(files, remoteStore, lorder) ==
    {k \in DOMAIN remoteStore :
        /\ k \notin DOMAIN get_local_entities(files, lorder, EmptyDict).data
        /\ k \notin RenameOlds(detect_renames(files, lorder, DOMAIN remoteStore))}

\* The keys the deletion phase of a push has deleted, or would delete in a dry
\* run, and those it has issued a remote delete for.
DeletedKeys(st) == Range(st.result.deleted)
DeletionCalls(st) ==
    {st.calls[i].key : i \in {j \in DOMAIN st.calls : /\ st.calls[j].op = "delete"
                                                     /\ st.calls[j].phase = "deletions"}}

\* C39: over the same stores, a push of the simple syncer with sync_deletions
\* deletes the same remote keys with force as without: the remote keys that have
\* no local counterpart and are no old key of a pending rename.
C39_ForceDeletesTheSame ==
    [][(kind = "simple" /\ op'.name = "push" /\ op'.sync_deletions /\ ~raised') =>
          LET forced == push(local, remote, TRUE, TRUE, op'.dry_run, glob', NoFail)
              plain == push(local, remote, FALSE, TRUE, op'.dry_run, glob', NoFail)
          IN /\ DeletedKeys(forced) = Orphans(local, remote, glob')
             /\ DeletedKeys(plain) = Orphans(local, remote, glob')
             /\ ~op'.dry_run =>
                   /\ DeletionCalls(forced) = Orphans(local, remote, glob')
                   /\ DeletionCalls(plain) = Orphans(local, remote, glob')]_vars

\* A forced push with sync_deletions has made a rename and deleted a remote
\* entity.
C39_Witness ==
    /\ kind = "simple" /\ op.name = "push" /\ op.sync_deletions /\ op.force /\ ~op.dry_run
    /\ ~raised /\ result.renamed # <<>> /\ result.deleted # <<>>

\* Whether the remote store, remoteStore at the start of the call log cs, holds
\* the key when call i is issued: the last successful save or delete of the key
\* before call i decides, the store at the start when there is none.
ExistsWhenIssued(cs, i, remoteStore) ==
    LET prior == {j \in 1..(i - 1) : /\ cs[j].op \in {"save", "delete"}
                                     /\ cs[j].key = cs[i].key /\ cs[j].ok}
    IN IF prior = {} THEN cs[i].key \in DOMAIN remoteStore
       ELSE cs[CHOOSE j \in prior : \A k \in prior : k <= j].op = "save"

\* C40: in a push of the simple syncer in which no call fails, a key whose write
\* of phase 2 succeeded is recorded in result.updated when the remote store held
\* the key at the time the write was issued, and in result.created when it did
\* not.
C40_ClassificationMatchesRemote ==
    [][(kind = "simple" /\ op'.name = "push" /\ ~op'.dry_run /\ ~raised'
          /\ failure' = NoFail) =>
          \A i \in DOMAIN calls' :
              (calls'[i].op = "save" /\ calls'[i].ok /\ calls'[i].phase = "saves") =>
                  IF ExistsWhenIssued(calls', i, remote)
                  THEN /\ calls'[i].key \in Range(result'.updated)
                       /\ calls'[i].key \notin Range(result'.created)
                  ELSE /\ calls'[i].key \in Range(result'.created)
                       /\ calls'[i].key \notin Range(result'.updated)]_vars
====
